---------------------------- MODULE Spec2Model ----------------------------
(***************************************************************************)
(* A model of libkcmdline: the database loader (src/src/database.rs), the  *)
(* validator registry and built-in validators (src/src/validators), the   *)
(* directory walk of FilesystemDatabase::list_parameters, the command-line *)
(* parser (src/src/parser.rs) and the query matcher (src/src/lib.rs,       *)
(* src/src/query.rs).                                                      *)
(*                                                                         *)
(* Strings whose characters matter (parameter names, validated values) are *)
(* sequences of one-character strings.  Option<T> is <<>> for None and     *)
(* <<x>> for Some(x).  A HashMap is a function; a Vec is a sequence; the   *)
(* iteration order of a HashSet or HashMap is any order of its elements.   *)
(* Functions whose body in the repository is todo!() are modelled from the *)
(* specification and are marked so in the model map.                       *)
(***************************************************************************)
EXTENDS Integers, Sequences, FiniteSets, TLC

VARIABLES
    image,          \* the embedded image compiled into the program (fixed at build time)
    alive,          \* the DatabaseLoader value still exists (not consumed by a failed with_filesystem)
    sources,        \* DatabaseLoader.sources
    cache,          \* DatabaseLoader.cache
    result,         \* what the last loader operation returned
    lastOp,         \* the last loader operation
    built,          \* history: the last operation ran build_database
    srcCalls,       \* history: indices of the sources the last operation called
    builtLen        \* history: Len(sources) when the cached database was built

VARIABLES
    common_validators,      \* StandardValidatorRegistry.common_validators
    processor_validators,   \* StandardValidatorRegistry.processor_validators
    registered,             \* history: names passed to register_validator so far
    regLast                 \* history: the last registry call, its arguments and what it returned

VARIABLES
    validation              \* history: the last validate call, its arguments and its outcome

VARIABLES
    listing                 \* history: the last FilesystemDatabase::list_parameters call and its outcome

VARIABLES
    parsing                 \* history: the last parse call, its arguments and its outcome

VARIABLES
    catalog,                \* KCmdline.catalog.parameters
    probe,                  \* KCmdline.probe
    query,                  \* the QueryParameters value the caller holds
    queryLast               \* history: the last query call, the query it ran and its result

loaderVars == <<image, alive, sources, cache, result, lastOp, built, srcCalls, builtLen>>

registryVars == <<common_validators, processor_validators, registered, regLast>>

validateVars == <<validation>>

queryVars == <<catalog, probe, query, queryLast>>

parseVars == <<parsing>>

listVars == <<listing>>

vars == <<loaderVars, registryVars, validateVars, queryVars, parseVars, listVars>>

notLoader == <<registryVars, validateVars, queryVars, parseVars, listVars>>

notRegistry == <<loaderVars, validateVars, queryVars, parseVars, listVars>>

notValidate == <<loaderVars, registryVars, queryVars, parseVars, listVars>>

notQuery == <<loaderVars, registryVars, validateVars, parseVars, listVars>>

notParse == <<loaderVars, registryVars, validateVars, queryVars, listVars>>

notList == <<loaderVars, registryVars, validateVars, queryVars, parseVars>>

----------------------------------------------------------------------------
(* Bounds *)

MaxSources == 2

\* Longest generated value string handed to a validator.
MaxLen == 3

\* Most tokens on a generated command line.
MaxTokens == 3

\* Deepest directory below <root>/parameters in a generated tree.
MaxDepth == 2

\* Most colon-separated fields after "pci:" in a generated PCI id.
MaxFields == 4

----------------------------------------------------------------------------
(* Generic helpers *)

None == <<>>
Some(x) == <<x>>
IsSome(o) == o # <<>>
Unwrap(o) == o[1]

EmptyMap == [x \in {} |-> x]

Range(s) == {s[i] : i \in DOMAIN s}

\* Every order in which the elements of a hash container can be iterated.
IterationOrders(S) ==
    {f \in [1..Cardinality(S) -> S] : \A i, j \in 1..Cardinality(S) : i # j => f[i] # f[j]}

Ok(v) == [ok |-> TRUE, val |-> v]
Err(kind, detail) == [ok |-> FALSE, kind |-> kind, detail |-> detail]

----------------------------------------------------------------------------
(* Parameter names and raw records *)

Names == { <<"p">>, <<"p", "/", "r">>, <<"p", "/", "r", "/", "s">> }

\* What a source holds for the names it has files for.
\*   def: "full" | "partial" | "bogus" | "alias" | "malformed" | "none"
\*   ver: "ok" | "absent" | "malformed"
RawFull(n) ==
    [name |-> n, processor |-> "kernel", description |-> "full",
     deprecated |-> Some(TRUE), selectors |-> Some(<<"arch:x86_64">>),
     syntax |-> [validator_type |-> "boolean", format |-> "", config |-> EmptyMap],
     distributions |-> Some("rhel" :> [min_version |-> Some("8"), max_version |-> None,
                                       component_version |-> None, notes |-> None]),
     examples |-> Some([valid |-> <<"1">>, invalid |-> <<"x">>]),
     documentation |-> Some([kernel_org |-> Some("doc"), man_pages |-> <<>>,
                             distribution_docs |-> EmptyMap])]

RawPartial(n) ==
    [name |-> n, processor |-> "systemd", description |-> "partial",
     deprecated |-> None, selectors |-> None,
     syntax |-> [validator_type |-> "integer", format |-> "<n>", config |-> EmptyMap],
     distributions |-> None, examples |-> None, documentation |-> None]

RawBogus(n) == [RawPartial(n) EXCEPT !.processor = "bogus", !.description = "bogus"]

\* A record whose own name field is not the name it is stored under.
RawAlias(n) == [RawPartial(n) EXCEPT !.name = <<"p">>, !.processor = "kernel",
                                      !.description = "alias"]

DefKinds == {"full", "partial", "bogus", "alias", "malformed", "none"}

RawOf(kind, n) ==
    CASE kind = "full" -> RawFull(n)
      [] kind = "partial" -> RawPartial(n)
      [] kind = "bogus" -> RawBogus(n)
      [] kind = "alias" -> RawAlias(n)

\* A filesystem tree: every directory in files carries the same kind of
\* definition.toml / versions.toml; list_parameters lists the directories
\* that have a definition.toml.
FsTree(files, def, ver) ==
    [list |-> IF def = "none" THEN {} ELSE files, files |-> files, def |-> def, ver |-> ver]

FileSets == { {<<"p">>, <<"p", "/", "r">>}, {<<"p", "/", "r">>, <<"p", "/", "r", "/", "s">>} }

FilesystemTrees ==
    {FsTree({}, "none", "absent"), FsTree({<<"p", "/", "r", "/", "s">>}, "none", "malformed")} \cup
    {FsTree(F, k[1], k[2]) :
        F \in FileSets,
        k \in {<<"full", "ok">>, <<"partial", "absent">>, <<"bogus", "absent">>,
               <<"alias", "absent">>, <<"malformed", "absent">>, <<"none", "malformed">>}}

\* An embedded image: the name list and the definition table are generated
\* separately, so a listed name may have no definition (as "bar" in build.rs).
EmbeddedImages ==
    { [list |-> Names, files |-> {<<"p">>, <<"p", "/", "r">>}, def |-> "malformed", ver |-> "absent"],
      [list |-> Names, files |-> {<<"p">>, <<"p", "/", "r">>}, def |-> "full", ver |-> "absent"] }

----------------------------------------------------------------------------
(* ParameterSource *)

ListParameters(src) == src.list

GetParameterDefinition(src, n) ==
    IF n \notin src.files \/ src.def = "none" THEN Ok(None)
    ELSE IF src.def = "malformed" THEN Err("FormatError", "parse_definition")
    ELSE Ok(Some(RawOf(src.def, n)))

GetParameterVersions(src, n) ==
    IF n \notin src.files \/ src.ver = "absent" THEN Ok(None)
    ELSE IF src.ver = "malformed" THEN Err("FormatError", "parse_versions")
    ELSE Ok(Some([mainline |-> None, vendors |-> None, components |-> None]))

----------------------------------------------------------------------------
(* DatabaseLoader: conversion of one record *)

Kernel == <<"Kernel">>
Systemd(v) == <<"Systemd", v>>
Dracut(v) == <<"Dracut", v>>
InitramfsTools == <<"InitramfsTools">>
Plymouth == <<"Plymouth">>
Grub == <<"Grub">>

parse_processor(s) ==
    CASE s = "kernel" -> Ok(Kernel)
      [] s = "systemd" -> Ok(Systemd("219"))
      [] s = "dracut" -> Ok(Dracut("011"))
      [] s = "initramfs-tools" -> Ok(InitramfsTools)
      [] s = "plymouth" -> Ok(Plymouth)
      [] s = "grub" -> Ok(Grub)
      [] OTHER -> Err("FormatError", "unknown_processor")

convert_distributions(raw) == IF IsSome(raw) THEN Unwrap(raw) ELSE EmptyMap

convert_examples(raw) ==
    IF IsSome(raw) THEN Unwrap(raw) ELSE [valid |-> <<>>, invalid |-> <<>>]

convert_documentation(raw) == raw

convert_raw_parameter(raw_def, raw_versions) ==
    LET processor == parse_processor(raw_def.processor) IN
    IF ~processor.ok THEN processor
    ELSE Ok([name |-> raw_def.name,
             processor |-> processor.val,
             description |-> raw_def.description,
             deprecated |-> IF IsSome(raw_def.deprecated) THEN Unwrap(raw_def.deprecated) ELSE FALSE,
             selectors |-> IF IsSome(raw_def.selectors) THEN Unwrap(raw_def.selectors) ELSE <<>>,
             syntax |-> raw_def.syntax,
             distributions |-> convert_distributions(raw_def.distributions),
             examples |-> convert_examples(raw_def.examples),
             documentation |-> convert_documentation(raw_def.documentation)])

\* Mutant of ScanSources: a later definition only fills in over the earlier one;
\* the optional fields it leaves unset keep the earlier record's values.
MergeRaw(old, new) ==
    [new EXCEPT !.deprecated = IF IsSome(new.deprecated) THEN @ ELSE old.deprecated,
                !.selectors = IF IsSome(new.selectors) THEN @ ELSE old.selectors,
                !.distributions = IF IsSome(new.distributions) THEN @ ELSE old.distributions]

RECURSIVE ScanSources_FieldMerge(_, _, _, _)
ScanSources_FieldMerge(srcs, n, i, acc) ==
    IF i > Len(srcs) THEN Ok(acc)
    ELSE LET d == GetParameterDefinition(srcs[i], n) IN
         IF ~d.ok THEN d
         ELSE LET v == GetParameterVersions(srcs[i], n) IN
              IF ~v.ok THEN v
              ELSE ScanSources_FieldMerge(srcs, n, i + 1,
                       [definition |->
                            IF IsSome(d.val)
                            THEN IF IsSome(acc.definition)
                                 THEN Some(MergeRaw(Unwrap(acc.definition), Unwrap(d.val)))
                                 ELSE d.val
                            ELSE acc.definition,
                        versions |-> IF IsSome(v.val) THEN v.val ELSE acc.versions])

\* The loop of load_parameter over sources i..Len(srcs): acc holds the
\* definition and versions found so far; the first Err ends the loop.
RECURSIVE ScanSources(_, _, _, _)
ScanSources(srcs, n, i, acc) ==
    IF i > Len(srcs) THEN Ok(acc)
    ELSE LET d == GetParameterDefinition(srcs[i], n) IN
         IF ~d.ok THEN d
         ELSE LET v == GetParameterVersions(srcs[i], n) IN
              IF ~v.ok THEN v
              ELSE ScanSources(srcs, n, i + 1,
                       [definition |-> IF IsSome(d.val) THEN d.val ELSE acc.definition,
                        versions |-> IF IsSome(v.val) THEN v.val ELSE acc.versions])

\* Mutant of load_parameter: a name no source defines is an error.
load_parameter_MissingIsError(srcs, n) ==
    LET found == ScanSources(srcs, n, 1, [definition |-> None, versions |-> None]) IN
    IF ~found.ok THEN found
    ELSE IF IsSome(found.val.definition)
         THEN LET p == convert_raw_parameter(Unwrap(found.val.definition), found.val.versions) IN
              IF p.ok THEN Ok(Some(p.val)) ELSE p
         ELSE Err("FormatError", "missing_definition")

load_parameter(srcs, n) ==
    LET found == ScanSources(srcs, n, 1, [definition |-> None, versions |-> None]) IN
    IF ~found.ok THEN found
    ELSE IF IsSome(found.val.definition)
         THEN LET p == convert_raw_parameter(Unwrap(found.val.definition), found.val.versions) IN
              IF p.ok THEN Ok(Some(p.val)) ELSE p
         ELSE Ok(None)

\* Mutant of get_parent_parameter: splits at the leftmost "/".
RECURSIVE find_slash(_, _)
find_slash(n, i) ==
    IF i > Len(n) THEN 0 ELSE IF n[i] = "/" THEN i ELSE find_slash(n, i + 1)

get_parent_parameter_Leftmost(n) ==
    LET idx == find_slash(n, 1) IN
    IF idx = 0 THEN None ELSE Some(SubSeq(n, 1, idx - 1))

\* rfind('/'): the greatest index holding "/", or 0.
RECURSIVE rfind_slash(_, _)
rfind_slash(n, i) ==
    IF i = 0 THEN 0 ELSE IF n[i] = "/" THEN i ELSE rfind_slash(n, i - 1)

get_parent_parameter(n) ==
    LET idx == rfind_slash(n, Len(n)) IN
    IF idx = 0 THEN None ELSE Some(SubSeq(n, 1, idx - 1))

----------------------------------------------------------------------------
(* DatabaseLoader: build_database *)

AllParamNames(srcs) == UNION {ListParameters(srcs[i]) : i \in DOMAIN srcs}

\* Mutant of the index push: the first name of a list is listed twice.
Push_Relisting(index, key, n) ==
    IF key \in DOMAIN index THEN [index EXCEPT ![key] = Append(@, n)]
    ELSE index @@ (key :> <<n, n>>)

Push(index, key, n) ==
    IF key \in DOMAIN index THEN [index EXCEPT ![key] = Append(@, n)]
    ELSE index @@ (key :> <<n>>)

\* Mutant of LoadAll: a failing parameter is skipped and the build goes on.
RECURSIVE LoadAll_SkipFailed(_, _, _, _)
LoadAll_SkipFailed(srcs, order, i, acc) ==
    IF i > Len(order) THEN Ok(acc)
    ELSE LET n == order[i]
             p == load_parameter(srcs, n) IN
         IF p.ok /\ IsSome(p.val)
         THEN LoadAll_SkipFailed(srcs, order, i + 1,
                  [acc EXCEPT !.parameters = @ @@ (n :> Unwrap(p.val))])
         ELSE LoadAll_SkipFailed(srcs, order, i + 1, acc)

\* The second loop of build_database over the names in iteration order.
RECURSIVE LoadAll(_, _, _, _)
LoadAll(srcs, order, i, acc) ==
    IF i > Len(order) THEN Ok(acc)
    ELSE LET n == order[i]
             p == load_parameter(srcs, n) IN
         IF ~p.ok THEN p
         ELSE IF IsSome(p.val)
              THEN LET parent == get_parent_parameter(n) IN
                   LoadAll(srcs, order, i + 1,
                       [parameters |-> acc.parameters @@ (n :> Unwrap(p.val)),
                        subparameter_index |->
                            IF IsSome(parent) THEN Push(acc.subparameter_index, Unwrap(parent), n)
                            ELSE acc.subparameter_index])
              ELSE LoadAll(srcs, order, i + 1, acc)

\* The third loop: the processor index, over the parameter map's iteration order.
RECURSIVE IndexProcessors(_, _, _, _)
IndexProcessors(parameters, order, i, index) ==
    IF i > Len(order) THEN index
    ELSE IndexProcessors(parameters, order, i + 1,
             Push(index, parameters[order[i]].processor, order[i]))

\* build_database: every result it can return, over the iteration orders of
\* all_param_names (a HashSet) and of the parameter map (a HashMap).
build_database(srcs) ==
    UNION { LET loaded == LoadAll(srcs, nameOrder, 1,
                             [parameters |-> EmptyMap, subparameter_index |-> EmptyMap]) IN
            IF ~loaded.ok THEN {loaded}
            ELSE { Ok([parameters |-> loaded.val.parameters,
                       subparameter_index |-> loaded.val.subparameter_index,
                       processor_index |->
                           IndexProcessors(loaded.val.parameters, mapOrder, 1, EmptyMap)]) :
                   mapOrder \in IterationOrders(DOMAIN loaded.val.parameters) }
          : nameOrder \in IterationOrders(AllParamNames(srcs)) }

----------------------------------------------------------------------------
(* DatabaseLoader: the operations *)

\* LoadedDatabase::get_subparameters; a returned &Parameter is the key it is stored under.
get_subparameters(db, parent) ==
    IF parent \in DOMAIN db.subparameter_index
    THEN SelectSeq(db.subparameter_index[parent], LAMBDA n : n \in DOMAIN db.parameters)
    ELSE <<>>

\* LoadedDatabase::parameters_by_processor
parameters_by_processor(db, processor) ==
    IF processor \in DOMAIN db.processor_index
    THEN SelectSeq(db.processor_index[processor], LAMBDA n : n \in DOMAIN db.parameters)
    ELSE <<>>

\* Mutant of load: builds on every call.
load_AlwaysBuild(c, srcs) ==
    { [cache |-> IF r.ok THEN Some(r.val) ELSE None,
       result |-> IF r.ok THEN Ok("database") ELSE r,
       built |-> TRUE] : r \in build_database(srcs) }

\* load: every (cache, result) it can leave, and whether it built.
load(c, srcs) ==
    IF c = None
    THEN { [cache |-> IF r.ok THEN Some(r.val) ELSE None,
            result |-> IF r.ok THEN Ok("database") ELSE r,
            built |-> TRUE] : r \in build_database(srcs) }
    ELSE { [cache |-> c, result |-> Ok("database"), built |-> FALSE] }

\* Mutant of reload: a failed build leaves the previously cached database.
reload_KeepsCacheOnFailure(c, srcs) ==
    { [cache |-> IF o.result.ok THEN o.cache ELSE c, result |-> o.result, built |-> o.built] :
        o \in load(None, srcs) }

reload(c, srcs) == load(None, srcs)

LoaderInit ==
    /\ alive = TRUE
    /\ image \in EmbeddedImages
    /\ sources = <<>>
    /\ cache = None
    /\ result = Ok("loader")
    /\ lastOp = "new"
    /\ built = FALSE
    /\ srcCalls = {}
    /\ builtLen = 0

\* Mutant of with_embedded: adding the source drops the cached database.
WithEmbedded_DropsCache ==
    /\ alive
    /\ Len(sources) < MaxSources
    /\ sources' = Append(sources, image)
    /\ cache' = None
    /\ result' = Ok("loader")
    /\ lastOp' = "with_embedded"
    /\ built' = FALSE
    /\ srcCalls' = {}
    /\ UNCHANGED <<alive, image, builtLen>>
    /\ UNCHANGED notLoader

WithEmbedded ==
    /\ alive
    /\ Len(sources) < MaxSources
    /\ sources' = Append(sources, image)
    /\ result' = Ok("loader")
    /\ lastOp' = "with_embedded"
    /\ built' = FALSE
    /\ srcCalls' = {}
    /\ UNCHANGED <<alive, image, cache, builtLen>>
    /\ UNCHANGED notLoader

\* with_filesystem(path) for a path that exists.
WithFilesystem ==
    /\ alive
    /\ Len(sources) < MaxSources
    /\ \E tree \in FilesystemTrees : sources' = Append(sources, tree)
    /\ result' = Ok("loader")
    /\ lastOp' = "with_filesystem"
    /\ built' = FALSE
    /\ srcCalls' = {}
    /\ UNCHANGED <<alive, image, cache, builtLen>>
    /\ UNCHANGED notLoader

\* with_filesystem(path) for a path that does not exist: FilesystemDatabase::new
\* fails and the loader, taken by value, is dropped.
WithFilesystemMissing ==
    /\ alive
    /\ alive' = FALSE
    /\ result' = Err("LoadError", "missing_root")
    /\ lastOp' = "with_filesystem"
    /\ built' = FALSE
    /\ srcCalls' = {}
    /\ UNCHANGED <<image, sources, cache, builtLen>>
    /\ UNCHANGED notLoader

Load ==
    /\ alive
    /\ \E o \in load(cache, sources) :
        /\ cache' = o.cache
        /\ result' = o.result
        /\ built' = o.built
        /\ srcCalls' = IF o.built THEN DOMAIN sources ELSE {}
        /\ builtLen' = IF o.built /\ o.result.ok THEN Len(sources) ELSE builtLen
    /\ lastOp' = "load"
    /\ UNCHANGED <<alive, image, sources>>
    /\ UNCHANGED notLoader

Reload ==
    /\ alive
    /\ \E o \in reload(cache, sources) :
        /\ cache' = o.cache
        /\ result' = o.result
        /\ built' = o.built
        /\ srcCalls' = IF o.built THEN DOMAIN sources ELSE {}
        /\ builtLen' = IF o.built /\ o.result.ok THEN Len(sources) ELSE builtLen
    /\ lastOp' = "reload"
    /\ UNCHANGED <<alive, image, sources>>
    /\ UNCHANGED notLoader

LoaderNext ==
    \/ WithEmbedded
    \/ WithFilesystem
    \/ WithFilesystemMissing
    \/ Load
    \/ Reload

\* The loader left untouched, for the specifications of the other components.
LoaderIdle ==
    /\ LoaderInit
    /\ image = [list |-> Names, files |-> {<<"p">>, <<"p", "/", "r">>},
                def |-> "full", ver |-> "absent"]

----------------------------------------------------------------------------
(* StandardValidatorRegistry *)

\* The validators a caller registers.
CustomValidators == {"CustomA", "CustomB"}

\* The syntax-type names used in calls.
ValidatorNames == {"boolean", "cpu_list", "dmi", "custom"}

Processors == {Kernel, Systemd("219"), Systemd("250"), Dracut("011"), Grub}

\* StandardValidatorRegistry::new
NewCommon ==
    [n \in {"boolean", "integer", "enum", "size", "hex", "key_value"} |->
        CASE n = "boolean" -> "BooleanValidator"
          [] n = "integer" -> "IntegerValidator"
          [] n = "enum" -> "EnumValidator"
          [] n = "size" -> "SizeValidator"
          [] n = "hex" -> "HexValidator"
          [] n = "key_value" -> "KeyValueValidator"]

NewProcessorSpecific ==
    [n \in {"cpu_list", "memory_range", "pci_device", "dracut_luks_name"} |->
        CASE n = "cpu_list" -> "CpuListValidator"
          [] n = "memory_range" -> "MemoryRangeValidator"
          [] n = "pci_device" -> "PciDeviceSpecValidator"
          [] n = "dracut_luks_name" -> "DracutLuksNameValidator"]

\* Mutant of get_validator: a name in neither table gets the boolean validator.
get_validator_FallbackBoolean(common, specific, processor, name) ==
    IF name \in DOMAIN specific THEN Some(specific[name])
    ELSE IF name \in DOMAIN common THEN Some(common[name])
    ELSE Some(common["boolean"])

\* Mutant of get_validator: the common table is consulted first.
get_validator_CommonFirst(common, specific, processor, name) ==
    IF name \in DOMAIN common THEN Some(common[name])
    ELSE IF name \in DOMAIN specific THEN Some(specific[name])
    ELSE None

\* Mutant of get_validator: the processor-specific table is consulted for
\* Kernel parameters only.
get_validator_KernelScoped(common, specific, processor, name) ==
    IF processor = Kernel /\ name \in DOMAIN specific THEN Some(specific[name])
    ELSE IF name \in DOMAIN common THEN Some(common[name])
    ELSE None

get_validator(common, specific, processor, name) ==
    IF name \in DOMAIN specific THEN Some(specific[name])
    ELSE IF name \in DOMAIN common THEN Some(common[name])
    ELSE None

\* register_validator: the table it leaves and what it returns.
\* Mutant of register_validator: an entry already in the table is kept.
register_validator_KeepExisting(specific, name, validator) ==
    [table |-> [n \in DOMAIN specific \cup {name} |->
                    IF n \in DOMAIN specific THEN specific[n] ELSE validator],
     result |-> Ok("unit")]

register_validator(specific, name, validator) ==
    [table |-> [n \in DOMAIN specific \cup {name} |->
                    IF n = name THEN validator ELSE specific[n]],
     result |-> Ok("unit")]

RegistryInit ==
    /\ common_validators = NewCommon
    /\ processor_validators = NewProcessorSpecific
    /\ registered = {}
    /\ regLast = [op |-> "new"]

RegisterValidator ==
    \E name \in ValidatorNames, v \in CustomValidators :
        LET r == register_validator(processor_validators, name, v) IN
        /\ processor_validators' = r.table
        /\ registered' = IF r.result.ok THEN registered \cup {name} ELSE registered
        /\ regLast' = [op |-> "register", name |-> name, validator |-> v, result |-> r.result]
        /\ UNCHANGED common_validators
        /\ UNCHANGED notRegistry

GetValidator ==
    \E processor \in Processors, name \in ValidatorNames :
        /\ regLast' = [op |-> "get", processor |-> processor, name |-> name,
                       result |-> get_validator(common_validators, processor_validators,
                                                processor, name)]
        /\ UNCHANGED <<common_validators, processor_validators, registered>>
        /\ UNCHANGED notRegistry

RegistryNext ==
    \/ RegisterValidator
    \/ GetValidator

----------------------------------------------------------------------------
(* Validated values: strings as sequences of characters *)

AsciiDigits == {"0", "1", "2", "3", "4", "5", "6", "7", "8", "9"}

\* A decimal digit outside ASCII (ARABIC-INDIC DIGIT THREE): the regex crate's
\* \d is \p{Nd}, the integer parsers of std accept ASCII digits only.
NonAsciiDigit == "U+0663"

\* \d
IsDigit(c) == c \in AsciiDigits \/ c = NonAsciiDigit

\* char::is_whitespace, as str::trim uses it
IsSpace(c) == c = " "

Alphabet == {"0", "1", "5", "^", "-", ",", ":", "K", " ", "n", NonAsciiDigit}

RECURSIVE StringsUpTo(_)
StringsUpTo(k) ==
    IF k = 0 THEN {<<>>}
    ELSE LET shorter == StringsUpTo(k - 1) IN
         shorter \cup {Append(w, c) : w \in {x \in shorter : Len(x) = k - 1}, c \in Alphabet}

U64MaxDigits ==
    <<"1", "8", "4", "4", "6", "7", "4", "4", "0", "7", "3", "7", "0", "9", "5", "5", "1", "6", "1", "5">>

U32MaxDigits == <<"4", "2", "9", "4", "9", "6", "7", "2", "9", "5">>

\* Values longer than MaxLen that the validators' cases need: the largest
\* u64 and u32 and their successors, a long number with leading zeros, and a
\* list of CPU items.
LongValues ==
    { U64MaxDigits,
      [U64MaxDigits EXCEPT ![20] = "6"],
      <<"0">> \o U64MaxDigits,
      U64MaxDigits \o <<"K">>,
      U32MaxDigits,
      [U32MaxDigits EXCEPT ![10] = "6"],
      <<"0", "-">> \o [U32MaxDigits EXCEPT ![10] = "6"],
      <<"0", ",", "2", "-", "4">>,
      <<"n", ":", "1", "-", "5">>,
      <<"^", "1", ",", " ", "5">> }

Values == StringsUpTo(MaxLen) \cup LongValues

DigitValue(c) ==
    CASE c = "0" -> 0 [] c = "1" -> 1 [] c = "2" -> 2 [] c = "3" -> 3 [] c = "4" -> 4
      [] c = "5" -> 5 [] c = "6" -> 6 [] c = "7" -> 7 [] c = "8" -> 8 [] c = "9" -> 9
      [] c = NonAsciiDigit -> 3

RECURSIVE StripZeros(_)
StripZeros(d) == IF Len(d) > 1 /\ d[1] = "0" THEN StripZeros(Tail(d)) ELSE d

\* a <= b for digit strings of equal length
RECURSIVE LexLeq(_, _)
LexLeq(a, b) ==
    IF a = <<>> THEN TRUE
    ELSE IF DigitValue(a[1]) # DigitValue(b[1]) THEN DigitValue(a[1]) < DigitValue(b[1])
    ELSE LexLeq(Tail(a), Tail(b))

\* The number written by a is <= the number written by b (ASCII digits).
DecLeq(a, b) ==
    LET x == StripZeros(a)
        y == StripZeros(b) IN
    IF Len(x) # Len(y) THEN Len(x) < Len(y) ELSE LexLeq(x, y)

\* str::parse::<u64> / ::<u32> of a text of \d+: Ok exactly for ASCII digits
\* whose number fits the type.
ParsesAsUnsigned(text, maxDigits) ==
    /\ text # <<>>
    /\ \A i \in DOMAIN text : text[i] \in AsciiDigits
    /\ DecLeq(text, maxDigits)

\* str::trim
RECURSIVE TrimStart(_)
TrimStart(w) == IF w # <<>> /\ IsSpace(w[1]) THEN TrimStart(Tail(w)) ELSE w

RECURSIVE TrimEnd(_)
TrimEnd(w) == IF w # <<>> /\ IsSpace(w[Len(w)]) THEN TrimEnd(SubSeq(w, 1, Len(w) - 1)) ELSE w

Trim(w) == TrimEnd(TrimStart(w))

\* The least index of c in w, or 0.
RECURSIVE IndexOf(_, _, _)
IndexOf(w, c, i) == IF i > Len(w) THEN 0 ELSE IF w[i] = c THEN i ELSE IndexOf(w, c, i + 1)

\* str::split(c): the pieces between the occurrences of c.
RECURSIVE Split(_, _)
Split(w, c) ==
    LET i == IndexOf(w, c, 1) IN
    IF i = 0 THEN <<w>>
    ELSE <<SubSeq(w, 1, i - 1)>> \o Split(SubSeq(w, i + 1, Len(w)), c)

AllDigits(w) == w # <<>> /\ \A i \in DOMAIN w : IsDigit(w[i])

\* toml::Value, and the accessors the validators use on a configuration map.
TomlBool(b) == <<"bool", b>>
TomlArray(a) == <<"array", a>>

ConfigBool(config, key) ==
    IF key \in DOMAIN config /\ config[key][1] = "bool" THEN config[key][2] ELSE FALSE

ConfigStrings(config, key) ==
    IF key \in DOMAIN config /\ config[key][1] = "array" THEN config[key][2] ELSE <<>>

Valid == <<"Valid">>
Warning(m) == <<"Warning", m>>
Error(m) == <<"Error", m>>
Unknown(m) == <<"Unknown", m>>
\* The call does not return: an unwrap of Err aborts it.
Panic(m) == <<"Panic", m>>

\* A call returning a Result that does not return, for the same reason.
Aborted(m) == [ok |-> FALSE, kind |-> "panic", detail |-> m]

----------------------------------------------------------------------------
(* Built-in validators *)

\* BooleanValidator::validate
BooleanValidator(value, config) ==
    IF value \in {<<>>, <<"0">>, <<"1">>, <<"t", "r", "u", "e">>, <<"f", "a", "l", "s", "e">>,
                  <<"o", "n">>, <<"o", "f", "f">>, <<"y", "e", "s">>, <<"n", "o">>,
                  <<"y">>, <<"n">>}
    THEN Valid
    ELSE Error("Invalid boolean value")

\* SizeValidator::validate: ^(\d+)([KMG]?)$
SizeValidator(value, config) ==
    LET hasSuffix == value # <<>> /\ value[Len(value)] \in {"K", "M", "G"}
        number == IF hasSuffix THEN SubSeq(value, 1, Len(value) - 1) ELSE value IN
    IF AllDigits(number)
    THEN IF ParsesAsUnsigned(number, U64MaxDigits) THEN Valid
         ELSE Panic("ParseIntError")
    ELSE Error("Invalid size format")

\* One item against ^(\^?)(\d+)(-(\d+))?$: its groups, or no match.
CpuItemCaptures(item) ==
    LET excl == item # <<>> /\ item[1] = "^"
        rest == IF excl THEN Tail(item) ELSE item
        dash == IndexOf(rest, "-", 1)
        start == IF dash = 0 THEN rest ELSE SubSeq(rest, 1, dash - 1)
        end == IF dash = 0 THEN <<>> ELSE SubSeq(rest, dash + 1, Len(rest)) IN
    IF AllDigits(start) /\ (dash = 0 \/ AllDigits(end))
    THEN Some([exclusion |-> excl, start |-> start, hasEnd |-> dash # 0, end |-> end])
    ELSE None

\* The body of validate_cpu_list's loop for one item: <<>> to go on to the
\* next item, or the result the function returns with.
CpuItemCheck(part, supports_exclusion) ==
    LET trimmed == Trim(part)
        captures == CpuItemCaptures(trimmed) IN
    IF captures = None THEN Some(Error("Invalid CPU specification"))
    ELSE LET c == Unwrap(captures) IN
         IF ~ParsesAsUnsigned(c.start, U32MaxDigits) THEN Some(Panic("ParseIntError"))
         ELSE IF c.exclusion /\ ~supports_exclusion
              THEN Some(Error("CPU exclusion (^) not supported"))
         ELSE IF c.hasEnd
              THEN IF ~ParsesAsUnsigned(c.end, U32MaxDigits) THEN Some(Panic("ParseIntError"))
                   ELSE IF DecLeq(c.end, c.start) THEN Some(Error("Invalid CPU range"))
                   ELSE None
         ELSE None

RECURSIVE CpuItems(_, _, _)
CpuItems(parts, i, supports_exclusion) ==
    IF i > Len(parts) THEN Valid
    ELSE LET r == CpuItemCheck(parts[i], supports_exclusion) IN
         IF IsSome(r) THEN Unwrap(r) ELSE CpuItems(parts, i + 1, supports_exclusion)

\* CpuListValidator::validate_cpu_list
validate_cpu_list(cpu_list, supports_exclusion) ==
    CpuItems(Split(cpu_list, ","), 1, supports_exclusion)

\* CpuListValidator::validate
CpuListValidator(value, config) ==
    LET supports_flags == ConfigBool(config, "supports_flags")
        supports_exclusion == ConfigBool(config, "supports_exclusion")
        colon == IndexOf(value, ":", 1)
        hasFlags == supports_flags /\ colon # 0
        flag_str == SubSeq(value, 1, colon - 1)
        cpu_part == IF hasFlags THEN SubSeq(value, colon + 1, Len(value)) ELSE value
        valid_flags == ConfigStrings(config, "valid_flags")
        flags == Split(flag_str, ",") IN
    IF /\ hasFlags
       /\ valid_flags # <<>>
       /\ \E i \in DOMAIN flags : Trim(flags[i]) \notin Range(valid_flags)
    THEN Error("Invalid CPU flag")
    ELSE validate_cpu_list(cpu_part, supports_exclusion)

CpuListConfigs ==
    { [k \in K |-> IF k = "valid_flags" THEN TomlArray(<< <<"n">> >>) ELSE TomlBool(TRUE)] :
        K \in SUBSET {"supports_flags", "supports_exclusion", "valid_flags"} }

\* str::split_once(c): the texts before and after the first c, or None.
SplitOnce(w, c) ==
    LET i == IndexOf(w, c, 1) IN
    IF i = 0 THEN None ELSE Some(<<SubSeq(w, 1, i - 1), SubSeq(w, i + 1, Len(w))>>)

\* DracutLvmLvValidator::validate
DracutLvmLvValidator(value, config) ==
    LET parts == SplitOnce(value, "/") IN
    IF IsSome(parts)
    THEN LET vg == Unwrap(parts)[1]
             lv == Unwrap(parts)[2] IN
         IF vg = <<>> THEN Error("Volume group name cannot be empty")
         ELSE IF lv = <<>> THEN Error("Logical volume name cannot be empty")
         ELSE IF vg[1] = "/" THEN Error("Volume group name cannot start with '/'")
         ELSE Valid
    ELSE Error("Must be in format volume_group/logical_volume")

\* The sequences of at most k elements of S.
RECURSIVE SeqsUpTo(_, _)
SeqsUpTo(S, k) ==
    IF k = 0 THEN {<<>>}
    ELSE LET shorter == SeqsUpTo(S, k - 1) IN
         shorter \cup {Append(w, x) : w \in {y \in shorter : Len(y) = k - 1}, x \in S}

\* The texts of ts with c between them.
RECURSIVE JoinWith(_, _)
JoinWith(ts, c) ==
    IF ts = <<>> THEN <<>>
    ELSE IF Len(ts) = 1 THEN ts[1]
    ELSE ts[1] \o <<c>> \o JoinWith(Tail(ts), c)

HexDigits == AsciiDigits \cup {"a", "b", "c", "d", "e", "f", "A", "B", "C", "D", "E", "F"}

AllHex(w) == \A i \in DOMAIN w : w[i] \in HexDigits

\* str::len: the length in bytes.
RECURSIVE ByteLen(_)
ByteLen(w) ==
    IF w = <<>> THEN 0 ELSE (IF w[1] = NonAsciiDigit THEN 2 ELSE 1) + ByteLen(Tail(w))

\* u16::from_str_radix(part, 16).is_ok(): an optional '+', then hexadecimal
\* digits whose number fits 16 bits.
FromStrRadix16IsOk(part) ==
    LET digits == IF part # <<>> /\ part[1] = "+" THEN Tail(part) ELSE part IN
    /\ digits # <<>>
    /\ AllHex(digits)
    /\ Len(StripZeros(digits)) <= 4

RECURSIVE PciIdParts(_, _)
PciIdParts(parts, i) ==
    IF i > Len(parts) THEN Valid
    ELSE IF ByteLen(parts[i]) # 4 THEN Error("PCI IDs must be 4-digit hex")
    ELSE IF ~FromStrRadix16IsOk(parts[i]) THEN Error("Invalid hex PCI ID")
    ELSE PciIdParts(parts, i + 1)

\* PciDeviceSpecValidator::validate_pci_id_format
validate_pci_id_format(value) ==
    LET parts == Split(value, ":") IN
    IF Len(parts) # 2 /\ Len(parts) # 4
    THEN Error("PCI ID must be vendor:device or vendor:device:subvendor:subdevice")
    ELSE PciIdParts(parts, 1)

\* ^(?:([0-9a-fA-F]{1,4}):)?([0-9a-fA-F]{1,2}):([0-9a-fA-F]{1,2})\.([0-7])$
PciAddressMatches(value) ==
    LET parts == Split(value, ":")
        n == Len(parts)
        last == Split(parts[n], ".") IN
    /\ n \in {2, 3}
    /\ n = 3 => (Len(parts[1]) \in 1..4 /\ AllHex(parts[1]))
    /\ Len(parts[n - 1]) \in 1..2 /\ AllHex(parts[n - 1])
    /\ Len(last) = 2
    /\ Len(last[1]) \in 1..2 /\ AllHex(last[1])
    /\ Len(last[2]) = 1 /\ last[2][1] \in {"0", "1", "2", "3", "4", "5", "6", "7"}

\* PciDeviceSpecValidator::validate_pci_address_format
validate_pci_address_format(value) ==
    IF PciAddressMatches(value) THEN Valid ELSE Error("Invalid PCI address format")

PciPrefix == <<"p", "c", "i", ":">>

\* PciDeviceSpecValidator::validate
PciDeviceSpecValidator(value, config) ==
    IF Len(value) >= 4 /\ SubSeq(value, 1, 4) = PciPrefix
    THEN validate_pci_id_format(SubSeq(value, 5, Len(value)))
    ELSE validate_pci_address_format(value)

PciFields == { <<"1", "0", "d", "e">>, <<"1", "2", "3">>, <<"+", "1", "2", "3">>, <<"1", "2", "g", "4">>,
              <<"1", "2", NonAsciiDigit>> }

PciValues ==
    { PciPrefix \o JoinWith(fields, ":") : fields \in SeqsUpTo(PciFields, MaxFields) }
    \cup
    { (IF domain = <<>> THEN <<>> ELSE domain \o <<":">>) \o bus \o <<":">> \o dev \o <<".">> \o func :
        domain \in {<<>>, <<"0", "0", "0", "0">>, <<"0", "0", "0", "0", "0">>},
        bus \in {<<"0", "1">>, <<"0", "0", "1">>},
        dev \in {<<"0", "0">>, <<"g", "0">>},
        func \in {<<"0">>, <<"7">>, <<"8">>, <<"1", "0">>} }
    \cup
    { <<"P", "C", "I", ":", "1", "0", "d", "e", ":", "1", "2", "3", "4">>, <<"0", "1", ":", "0", "0", ".">>, <<"p", "c", "i">> }

I64MaxDigits == <<"9", "2", "2", "3", "3", "7", "2", "0", "3", "6", "8", "5", "4", "7", "7", "5", "8", "0", "7">>

I64MinDigits == <<"9", "2", "2", "3", "3", "7", "2", "0", "3", "6", "8", "5", "4", "7", "7", "5", "8", "0", "8">>

\* A signed 64-bit integer, kept as its sign and decimal digits.
Int64(neg, digits) ==
    LET d == StripZeros(digits) IN [neg |-> neg /\ d # <<"0">>, digits |-> d]

\* a <= b for two such integers.
SignedLeq(a, b) ==
    IF a.neg # b.neg THEN a.neg
    ELSE IF a.neg THEN DecLeq(b.digits, a.digits)
    ELSE DecLeq(a.digits, b.digits)

SignedLess(a, b) == ~SignedLeq(b, a)

\* str::parse::<i64>: an optional sign, then ASCII digits whose number fits.
ParseI64(value) ==
    LET signed == value # <<>> /\ value[1] \in {"+", "-"}
        neg == value # <<>> /\ value[1] = "-"
        digits == IF signed THEN Tail(value) ELSE value IN
    IF /\ digits # <<>>
       /\ \A i \in DOMAIN digits : digits[i] \in AsciiDigits
       /\ DecLeq(digits, IF neg THEN I64MinDigits ELSE I64MaxDigits)
    THEN Some(Int64(neg, digits)) ELSE None

TomlInteger(n) == <<"integer", n>>
TomlString(t) == <<"string", t>>

\* config.get(key).and_then(|v| v.as_integer())
ConfigInteger(config, key) ==
    IF key \in DOMAIN config /\ config[key][1] = "integer" THEN Some(config[key][2]) ELSE None

\* Mutant of IntegerValidator: the upper bound is exclusive.
IntegerValidator_ExclusiveMax(value, config) ==
    LET parsed == ParseI64(value)
        min == ConfigInteger(config, "min")
        max == ConfigInteger(config, "max") IN
    IF parsed = None THEN Error("Invalid integer")
    ELSE IF /\ IsSome(min) /\ IsSome(max)
            /\ (SignedLess(Unwrap(parsed), Unwrap(min)) \/ SignedLeq(Unwrap(max), Unwrap(parsed)))
         THEN Error("Integer out of range")
    ELSE Valid

\* IntegerValidator::validate
IntegerValidator(value, config) ==
    LET parsed == ParseI64(value)
        min == ConfigInteger(config, "min")
        max == ConfigInteger(config, "max") IN
    IF parsed = None THEN Error("Invalid integer")
    ELSE IF /\ IsSome(min) /\ IsSome(max)
            /\ (SignedLess(Unwrap(parsed), Unwrap(min)) \/ SignedLess(Unwrap(max), Unwrap(parsed)))
         THEN Error("Integer out of range")
    ELSE Valid

IntegerAlphabet == {"0", "1", "5", "-", "+", "x"}

IntegerValues ==
    SeqsUpTo(IntegerAlphabet, MaxLen)
    \cup { I64MaxDigits, I64MinDigits, <<"-">> \o I64MinDigits, <<"-">> \o I64MaxDigits,
           <<"-">> \o [I64MinDigits EXCEPT ![19] = "9"], <<"0", "0">> \o I64MaxDigits,
           <<"+">> \o I64MaxDigits, <<NonAsciiDigit>>, <<"1", " ">> }

IntegerConfigs ==
    LET int(neg, digits) == TomlInteger(Int64(neg, digits)) IN
    { EmptyMap,
      [min |-> int(FALSE, <<"0">>), max |-> int(FALSE, <<"1", "0">>)],
      [min |-> int(FALSE, <<"0">>)],
      [max |-> int(FALSE, <<"1", "0">>)],
      [min |-> int(TRUE, <<"5">>), max |-> int(FALSE, <<"5">>)],
      [min |-> int(FALSE, <<"1", "0">>), max |-> int(FALSE, <<"0">>)],
      [min |-> TomlString(<<"0">>), max |-> int(FALSE, <<"1", "0">>)],
      [min |-> int(TRUE, I64MinDigits), max |-> int(FALSE, I64MaxDigits)] }

----------------------------------------------------------------------------
(* DmiSpecValidator *)

\* str::starts_with
StartsWith(w, prefix) == Len(w) >= Len(prefix) /\ SubSeq(w, 1, Len(prefix)) = prefix

DmiPrefix == <<"d", "m", "i", ":">>

\* valid_fields
DmiValidFields ==
    { <<"v", "e", "n", "d", "o", "r">>,
      <<"p", "r", "o", "d", "u", "c", "t">>,
      <<"v", "e", "r", "s", "i", "o", "n">>,
      <<"s", "e", "r", "i", "a", "l">>,
      <<"u", "u", "i", "d">>,
      <<"s", "k", "u">>,
      <<"f", "a", "m", "i", "l", "y">>,
      <<"b", "o", "a", "r", "d", "_", "v", "e", "n", "d", "o", "r">>,
      <<"b", "o", "a", "r", "d", "_", "n", "a", "m", "e">>,
      <<"c", "h", "a", "s", "s", "i", "s", "_", "v", "e", "n", "d", "o", "r">> }

DmiSpecValidator(value, config) ==
    IF ~StartsWith(value, DmiPrefix) THEN Error("DMI spec must start with 'dmi:'")
    ELSE LET parts == SplitOnce(SubSeq(value, 5, Len(value)), ":") IN
         IF parts = None THEN Error("DMI spec must be dmi:field:value")
         ELSE LET field == Unwrap(parts)[1] IN
              IF field \notin DmiValidFields THEN Warning("Unknown DMI field")
              ELSE IF Unwrap(parts)[2] = <<>> THEN Error("DMI value cannot be empty")
              ELSE Valid

\* The field and value parts the generated DMI specs are built from.
DmiFieldPool == { <<"v", "e", "n", "d", "o", "r">>, <<"b", "o", "a", "r", "d", "_", "n", "a", "m", "e">>, <<"b", "o", "g", "u", "s">>, <<"V", "e", "n", "d", "o", "r">>, <<>> }
DmiValuePool == { <<>>, <<"x">>, <<"a", ":", "b">>, <<":">> }

DmiValues ==
    { DmiPrefix \o field \o <<":">> \o value : field \in DmiFieldPool, value \in DmiValuePool }
    \cup { DmiPrefix \o field : field \in DmiFieldPool }
    \cup { <<"v", "e", "n", "d", "o", "r", ":", "x">>, <<"D", "M", "I", ":", "v", "e", "n", "d", "o", "r", ":", "x">>, <<>> }

----------------------------------------------------------------------------
(* SystemdUnitValidator *)

\* str::ends_with
EndsWith(w, suffix) ==
    Len(w) >= Len(suffix) /\ SubSeq(w, Len(w) - Len(suffix) + 1, Len(w)) = suffix

\* str::contains(char)
Contains(w, c) == \E i \in DOMAIN w : w[i] = c

\* valid_suffixes
UnitSuffixes ==
    { <<".", "s", "e", "r", "v", "i", "c", "e">>,
      <<".", "t", "a", "r", "g", "e", "t">>,
      <<".", "s", "o", "c", "k", "e", "t">>,
      <<".", "t", "i", "m", "e", "r">>,
      <<".", "m", "o", "u", "n", "t">>,
      <<".", "a", "u", "t", "o", "m", "o", "u", "n", "t">>,
      <<".", "s", "w", "a", "p">>,
      <<".", "p", "a", "t", "h">>,
      <<".", "s", "l", "i", "c", "e">>,
      <<".", "s", "c", "o", "p", "e">> }

SystemdUnitValidator(value, config) ==
    IF value = <<>> THEN Error("Unit name cannot be empty")
    ELSE IF ~\E suffix \in UnitSuffixes : EndsWith(value, suffix)
    THEN Warning("Unit doesn't have a recognized suffix")
    ELSE IF Contains(value, "/") \/ Contains(value, "\\")
    THEN Error("Unit names cannot contain path separators")
    ELSE Valid

\* The stems and endings the generated unit names are built from.
UnitStemPool == { <<>>, <<"a">>, <<"a", "/", "b">>, <<"a", "\\", "b">>, <<"/">>, <<".", "s", "e", "r", "v", "i", "c", "e">> }
UnitEndingPool == { <<>>, <<".", "s", "e", "r", "v", "i", "c", "e">>, <<".", "t", "a", "r", "g", "e", "t">>, <<".", "s", "c", "o", "p", "e">>, <<".", "s", "e", "r", "v", "i", "c">>, <<".", "S", "e", "r", "v", "i", "c", "e">>, <<".", "s", "e", "r", "v", "i", "c", "e", " ">> }

UnitValues == { stem \o ending : stem \in UnitStemPool, ending \in UnitEndingPool }

----------------------------------------------------------------------------
(* DracutLuksNameValidator *)

\* uuid_regex: ^[0-9a-fA-F]{8}-[0-9a-fA-F]{4}-[0-9a-fA-F]{4}-[0-9a-fA-F]{4}-[0-9a-fA-F]{12}$
UuidDashes == {9, 14, 19, 24}

UuidMatches(w) ==
    /\ Len(w) = 36
    /\ \A i \in 1..36 : IF i \in UuidDashes THEN w[i] = "-" ELSE w[i] \in HexDigits

DracutLuksNameValidator(value, config) ==
    LET parts == SplitOnce(value, "=") IN
    IF IsSome(parts)
    THEN LET uuid_part == Unwrap(parts)[1]
             name_part == Unwrap(parts)[2] IN
         IF ~UuidMatches(uuid_part) THEN Warning("doesn't look like a valid UUID")
         ELSE IF name_part = <<>> THEN Error("LUKS device name cannot be empty")
         ELSE IF Contains(name_part, "/") THEN Error("LUKS device name cannot contain '/'")
         ELSE Valid
    ELSE Error("Must be in format uuid=name")

\* The uuid and name parts the generated values are built from.
LuksUuidPool ==
    { <<"0", "1", "2", "3", "a", "b", "c", "d", "-", "0", "1", "2", "3", "-", "4", "5", "6", "7", "-", "8", "9", "a", "b", "-", "0", "1", "2", "3", "4", "5", "6", "7", "8", "9", "A", "B">>,
      <<"0", "1", "2", "3", "a", "b", "c", "d", "-", "0", "1", "2", "3", "-", "4", "5", "6", "7", "-", "8", "9", "a", "b", "-", "0", "1", "2", "3", "4", "5", "6", "7", "8", "9", "A">>,
      <<"0", "1", "2", "3", "a", "b", "c", "d", "-", "0", "1", "2", "3", "-", "4", "5", "6", "7", "-", "8", "9", "a", "b", "-", "0", "1", "2", "3", "4", "5", "6", "7", "8", "9", "A", "g">>,
      <<"0", "1", "2", "3", "a", "b", "c", "d", "0", "0", "1", "2", "3", "-", "4", "5", "6", "7", "-", "8", "9", "a", "b", "-", "0", "1", "2", "3", "4", "5", "6", "7", "8", "9", "A", "B">>,
      <<"x">>, <<>> }
LuksNamePool == { <<>>, <<"n">>, <<"a", "/", "b">>, <<"/">>, <<"a", "=", "b">> }

LuksValues ==
    { uuid \o <<"=">> \o name : uuid \in LuksUuidPool, name \in LuksNamePool }
    \cup LuksUuidPool

\* The arguments of the generated calls.
ValidatorInputs(value, config) ==
    \/ value \in Values /\ config \in CpuListConfigs
    \/ value \in PciValues /\ config = EmptyMap
    \/ value \in IntegerValues /\ config \in IntegerConfigs
    \/ value \in DmiValues /\ config = EmptyMap
    \/ value \in UnitValues /\ config = EmptyMap
    \/ value \in LuksValues /\ config = EmptyMap

\* A call's arguments, before the validator has run.
ValidateInit ==
    \E value \in Values \cup PciValues \cup IntegerValues \cup DmiValues \cup UnitValues
                  \cup LuksValues,
       config \in CpuListConfigs \cup IntegerConfigs \cup {EmptyMap} :
        /\ ValidatorInputs(value, config)
        /\ validation = [op |-> "call", value |-> value, config |-> config]

ValidateIdle == validation = [op |-> "call", value |-> <<>>, config |-> EmptyMap]

ValidateBoolean ==
    /\ validation.op = "call"
    /\ validation' = [op |-> "validate", validator |-> "BooleanValidator",
                      value |-> validation.value, config |-> validation.config,
                      result |-> BooleanValidator(validation.value, validation.config)]
    /\ UNCHANGED notValidate

ValidateSize ==
    /\ validation.op = "call"
    /\ validation' = [op |-> "validate", validator |-> "SizeValidator",
                      value |-> validation.value, config |-> validation.config,
                      result |-> SizeValidator(validation.value, validation.config)]
    /\ UNCHANGED notValidate

ValidateCpuList ==
    /\ validation.op = "call"
    /\ validation' = [op |-> "validate", validator |-> "CpuListValidator",
                      value |-> validation.value, config |-> validation.config,
                      result |-> CpuListValidator(validation.value, validation.config)]
    /\ UNCHANGED notValidate

ValidateInteger ==
    /\ validation.op = "call"
    /\ validation' = [op |-> "validate", validator |-> "IntegerValidator",
                      value |-> validation.value, config |-> validation.config,
                      result |-> IntegerValidator(validation.value, validation.config)]
    /\ UNCHANGED notValidate

ValidatePciDeviceSpec ==
    /\ validation.op = "call"
    /\ validation' = [op |-> "validate", validator |-> "PciDeviceSpecValidator",
                      value |-> validation.value, config |-> validation.config,
                      result |-> PciDeviceSpecValidator(validation.value, validation.config)]
    /\ UNCHANGED notValidate

ValidateDracutLvmLv ==
    /\ validation.op = "call"
    /\ validation' = [op |-> "validate", validator |-> "DracutLvmLvValidator",
                      value |-> validation.value, config |-> validation.config,
                      result |-> DracutLvmLvValidator(validation.value, validation.config)]
    /\ UNCHANGED notValidate

ValidateDmiSpec ==
    /\ validation.op = "call"
    /\ validation' = [op |-> "validate", validator |-> "DmiSpecValidator",
                      value |-> validation.value, config |-> validation.config,
                      result |-> DmiSpecValidator(validation.value, validation.config)]
    /\ UNCHANGED notValidate

ValidateSystemdUnit ==
    /\ validation.op = "call"
    /\ validation' = [op |-> "validate", validator |-> "SystemdUnitValidator",
                      value |-> validation.value, config |-> validation.config,
                      result |-> SystemdUnitValidator(validation.value, validation.config)]
    /\ UNCHANGED notValidate

ValidateDracutLuksName ==
    /\ validation.op = "call"
    /\ validation' = [op |-> "validate", validator |-> "DracutLuksNameValidator",
                      value |-> validation.value, config |-> validation.config,
                      result |-> DracutLuksNameValidator(validation.value, validation.config)]
    /\ UNCHANGED notValidate

ValidateNext ==
    \/ ValidateBoolean
    \/ ValidateSize
    \/ ValidateCpuList
    \/ ValidateInteger
    \/ ValidatePciDeviceSpec
    \/ ValidateDracutLvmLv
    \/ ValidateDmiSpec
    \/ ValidateSystemdUnit
    \/ ValidateDracutLuksName

----------------------------------------------------------------------------
(* FilesystemDatabase: the directory walk of list_parameters *)

DefinitionToml == <<"d", "e", "f", "i", "n", "i", "t", "i", "o", "n", ".", "t", "o", "m", "l">>

\* A path below <root>/parameters is the sequence of its components.
DirNames == {<<"a">>, DefinitionToml}

RECURSIVE PathsUpTo(_)
PathsUpTo(k) ==
    IF k = 0 THEN {<<>>}
    ELSE LET shorter == PathsUpTo(k - 1) IN
         shorter \cup {Append(d, n) : d \in {x \in shorter : Len(x) = k - 1}, n \in DirNames}

\* A tree on disk: whether <root>/parameters is missing, a directory or a
\* regular file; the directories below it; and the directories that hold a
\* regular file named definition.toml.
DiskTrees(depth) ==
    { [parameters |-> "missing", dirs |-> {}, defs |-> {}],
      [parameters |-> "file", dirs |-> {}, defs |-> {}] }
    \cup
    UNION { { [parameters |-> "dir", dirs |-> D, defs |-> F] :
                F \in SUBSET {d \in D : Append(d, DefinitionToml) \notin D} } :
        D \in { X \in SUBSET (PathsUpTo(depth) \ {<<>>}) :
                  \A d \in X : Len(d) > 1 => SubSeq(d, 1, Len(d) - 1) \in X } }

WellFormedTree(t) ==
    /\ t.defs \subseteq t.dirs
    /\ \A d \in t.defs : Append(d, DefinitionToml) \notin t.dirs

\* fs::read_dir(dir) filtered by path.is_dir()
Children(t, dir) == {d \in t.dirs : Len(d) = Len(dir) + 1 /\ SubSeq(d, 1, Len(dir)) = dir}

\* path.join("definition.toml").exists(): true for an entry of any kind.
DefinitionExists(t, dir) == dir \in t.defs \/ Append(dir, DefinitionToml) \in t.dirs

\* full_name: the components joined by '/'.
RECURSIVE JoinPath(_)
JoinPath(d) ==
    IF d = <<>> THEN <<>>
    ELSE IF Len(d) = 1 THEN d[1]
    ELSE d[1] \o <<"/">> \o JoinPath(Tail(d))

\* collect_parameters_recursive: every list the walk can push, read_dir
\* yielding a directory's entries in any order.
RECURSIVE collect_parameters_recursive(_, _), CollectEntries(_, _)
CollectEntries(t, entries) ==
    IF entries = <<>> THEN {<<>>}
    ELSE LET path == entries[1]
             own == IF DefinitionExists(t, path) THEN <<JoinPath(path)>> ELSE <<>> IN
         { own \o below \o rest :
             below \in collect_parameters_recursive(t, path),
             rest \in CollectEntries(t, Tail(entries)) }

collect_parameters_recursive(t, dir) ==
    UNION { CollectEntries(t, order) : order \in IterationOrders(Children(t, dir)) }

\* FilesystemDatabase::list_parameters
list_parameters(t) ==
    CASE t.parameters = "missing" -> {Ok(<<>>)}
      [] t.parameters = "file" -> {Err("IoError", "read_dir")}
      [] t.parameters = "dir" -> {Ok(l) : l \in collect_parameters_recursive(t, <<>>)}

\* A call's receiver, before list_parameters has run.
ListInit == \E t \in DiskTrees(MaxDepth) : WellFormedTree(t) /\ listing = [op |-> "call", tree |-> t]

ListIdle == listing = [op |-> "call", tree |-> [parameters |-> "missing", dirs |-> {}, defs |-> {}]]

ListParametersCall ==
    /\ listing.op = "call"
    /\ \E r \in list_parameters(listing.tree) :
          listing' = [op |-> "list_parameters", tree |-> listing.tree, result |-> r]
    /\ UNCHANGED notList

ListNext == ListParametersCall

----------------------------------------------------------------------------
(* CommandLineParser *)

\* The parameters a parser's catalog can hold: name, processor and syntax.
ParserParameter(type, processor, config) ==
    [processor |-> processor, syntax |-> [validator_type |-> type, config |-> config]]

NameQuiet == <<"q", "u", "i", "e", "t">>
NameSplash == <<"s", "p", "l", "a", "s", "h">>
NameLvm == <<"r", "d", ".", "l", "v", "m", ".", "l", "v">>
NameMem == <<"m", "e", "m">>
NameDmi == <<"d", "m", "i">>

BootCatalog ==
    (NameQuiet :> ParserParameter("boolean", Kernel, EmptyMap))
    @@ (NameSplash :> ParserParameter("boolean", Plymouth, EmptyMap))
    @@ (NameLvm :> ParserParameter("dracut_lvm_lv", Dracut("011"), EmptyMap))

ParserCatalogs ==
    { BootCatalog,
      BootCatalog @@ (NameMem :> ParserParameter("size", Kernel, EmptyMap))
                  @@ (NameDmi :> ParserParameter("dmi", Kernel, EmptyMap)) }

\* The command line of the specification's example.
BootLine ==
    <<"q", "u", "i", "e", "t", " ", "s", "p", "l", "a", "s", "h", " ", "r", "d", ".", "l", "v", "m", ".", "l", "v", "=", "m", "y", "v", "g", "/", "m", "y", "l", "v", " ", "n", "o", "s", "u", "c", "h", "p", "a", "r", "a", "m", "=", "1">>

TokenPool ==
    { <<"q", "u", "i", "e", "t">>,
      <<"q", "u", "i", "e", "t", "=", "2">>,
      <<"m", "e", "m", "=", "5", "K">>,
      <<"m", "e", "m", "=", "x">>,
      <<"m", "e", "m", "=", "1", "8", "4", "4", "6", "7", "4", "4", "0", "7", "3", "7", "0", "9", "5", "5", "1", "6", "1", "6">>,
      <<"n", "o", "s", "u", "c", "h", "p", "a", "r", "a", "m", "=", "1">>,
      <<"d", "m", "i", "=", "a">> }

RECURSIVE Join(_)
Join(ts) ==
    IF ts = <<>> THEN <<>>
    ELSE IF Len(ts) = 1 THEN ts[1]
    ELSE ts[1] \o <<" ">> \o Join(Tail(ts))

RECURSIVE TokenLists(_)
TokenLists(k) ==
    IF k = 0 THEN {<<>>}
    ELSE LET shorter == TokenLists(k - 1) IN
         shorter \cup {Append(ts, t) : ts \in {x \in shorter : Len(x) = k - 1}, t \in TokenPool}

CommandLines ==
    {Join(ts) : ts \in TokenLists(MaxTokens)}
    \cup {BootLine, <<" ">> \o BootLine \o <<" ", " ">> \o NameQuiet \o <<" ">>}

\* str::split_whitespace: the non-empty pieces between whitespace.
SplitWhitespace(w) == SelectSeq(Split(w, " "), LAMBDA t : t # <<>>)

\* A token's name and optional value: split at the first '='.
TokenName(tok) ==
    LET i == IndexOf(tok, "=", 1) IN IF i = 0 THEN tok ELSE SubSeq(tok, 1, i - 1)

TokenValue(tok) ==
    LET i == IndexOf(tok, "=", 1) IN
    IF i = 0 THEN None ELSE Some(SubSeq(tok, i + 1, Len(tok)))

\* ParameterValidator::validate, dispatched on the boxed validator.
RunValidator(validator, value, config) ==
    CASE validator = "BooleanValidator" -> BooleanValidator(value, config)
      [] validator = "SizeValidator" -> SizeValidator(value, config)
      [] validator = "CpuListValidator" -> CpuListValidator(value, config)
      [] validator = "DracutLvmLvValidator" -> DracutLvmLvValidator(value, config)
      [] validator = "IntegerValidator" -> IntegerValidator(value, config)
      [] validator = "PciDeviceSpecValidator" -> PciDeviceSpecValidator(value, config)

\* The outcome of one token: Unknown for a name the catalog lacks, else the
\* verdict of the validator the registry has for the parameter's syntax type.
parse_single(cat, common, specific, tok) ==
    LET name == TokenName(tok)
        value == TokenValue(tok) IN
    IF name \notin DOMAIN cat THEN Unknown("unknown parameter")
    ELSE LET param == cat[name]
             validator == get_validator(common, specific, param.processor,
                                        param.syntax.validator_type) IN
         IF validator = None THEN Error("validator not found")
         ELSE RunValidator(Unwrap(validator), IF IsSome(value) THEN Unwrap(value) ELSE <<>>,
                           param.syntax.config)

CountOf(details, kind) == Cardinality({i \in DOMAIN details : details[i][2][1] = kind})

\* CommandLineParser::parse: the summary of the tokens' outcomes in token
\* order; a validator that panics takes the call with it.
parse(cat, common, specific, cmdline) ==
    LET tokens == SplitWhitespace(cmdline)
        details == [i \in DOMAIN tokens |->
                       <<TokenName(tokens[i]), parse_single(cat, common, specific, tokens[i])>>] IN
    IF \E i \in DOMAIN details : details[i][2][1] = "Panic"
    THEN Aborted("validator")
    ELSE Ok([total_parameters |-> Len(tokens),
             valid_count |-> CountOf(details, "Valid"),
             warning_count |-> CountOf(details, "Warning"),
             error_count |-> CountOf(details, "Error"),
             unknown_count |-> CountOf(details, "Unknown"),
             details |-> details])

\* A call's arguments, before parse has run.
ParseInit ==
    \E cat \in ParserCatalogs, cmdline \in CommandLines :
        parsing = [op |-> "call", catalog |-> cat, cmdline |-> cmdline]

ParseIdle == parsing = [op |-> "call", catalog |-> BootCatalog, cmdline |-> <<>>]

Parse ==
    /\ parsing.op = "call"
    /\ parsing' = [op |-> "parse", catalog |-> parsing.catalog, cmdline |-> parsing.cmdline,
                   result |-> parse(parsing.catalog, common_validators, processor_validators,
                                    parsing.cmdline)]
    /\ UNCHANGED notParse

ParseNext == Parse

----------------------------------------------------------------------------
(* KCmdline: the query matcher *)

\* The parameters a catalog can hold.  A distribution's support window is
\* written with numbers for version strings.
CatalogParameter(n) ==
    CASE n = <<"p">> ->
            [name |-> n, processor |-> Kernel, deprecated |-> FALSE,
             selectors |-> <<"arch:x86_64", "pci:8086:1234">>,
             distributions |-> ("rhel" :> [min_version |-> Some(8), max_version |-> None])]
      [] n = <<"p", "/", "r">> ->
            [name |-> n, processor |-> Systemd("219"), deprecated |-> FALSE,
             selectors |-> <<>>,
             distributions |-> EmptyMap]
      [] n = <<"q">> ->
            [name |-> n, processor |-> Dracut("011"), deprecated |-> TRUE,
             selectors |-> <<"arch:s390x">>,
             distributions |-> ("rhel" :> [min_version |-> Some(9), max_version |-> Some(9)])]

Catalogs ==
    { [n \in K |-> CatalogParameter(n)] :
        K \in { {<<"p">>, <<"p", "/", "r">>, <<"q">>}, {<<"p">>, <<"q">>} } }

TheProbe ==
    [hardware_tags |-> {"arch:x86_64", "pci:8086:1234"},
     software_tags |-> {"init:systemd"},
     distribution |-> [id |-> "rhel", version_id |-> 9]]

\* impl Default for QueryMode
DefaultQueryMode == "And"

\* QueryParameters::default (derived): every field at its default.
DefaultQuery ==
    [query_mode |-> DefaultQueryMode, name |-> None, processor |-> None,
     pci_ids |-> <<>>, usb_ids |-> <<>>, arch |-> None, applicable |-> None,
     distribution |-> None, deprecated |-> None, flags |-> <<>>]

\* Name patterns: literal texts, which a regex matches anywhere in the name;
\* "(" does not compile.
Patterns == { <<"r">>, <<"p">>, <<"(">> }

RegexNew(pattern) == IF pattern = <<"(">> THEN Err("regex", "syntax") ELSE Ok(pattern)

RegexIsMatch(pattern, text) ==
    \E i \in 1..(Len(text) - Len(pattern) + 1) :
        SubSeq(text, i, i + Len(pattern) - 1) = pattern

\* The queries a caller writes as a struct literal (all fields are pub).
Queries ==
    { [query_mode |-> m, name |-> n, processor |-> pr, pci_ids |-> pci, usb_ids |-> <<>>,
       arch |-> None, applicable |-> ap, distribution |-> di, deprecated |-> de, flags |-> fl] :
        m \in {"And", "Or"},
        n \in {None, Some(<<"r">>)},
        pr \in {None, Some(Kernel)},
        pci \in {<<>>, << <<"8086", "1234">> >>},
        ap \in {None, Some(TRUE)},
        di \in {None, Some([id |-> "rhel", version |-> Some(8)])},
        de \in {None, Some(FALSE)},
        fl \in {<<>>, <<"arch:x86_64">>} }

PciTag(id) == "pci:" \o id[1] \o ":" \o id[2]

UsbTag(id) == "usb:" \o id[1] \o ":" \o id[2]

is_applicable(param, pr) ==
    Range(param.selectors) \subseteq (pr.hardware_tags \cup pr.software_tags)

check_name_condition(param, q) ==
    q.name = None \/ RegexIsMatch(Unwrap(q.name), param.name)

check_processor_condition(param, q) ==
    q.processor = None \/ param.processor = Unwrap(q.processor)

check_hardware_condition(param, q, pr) ==
    \/ q.pci_ids = <<>> /\ q.usb_ids = <<>>
    \/ /\ \A i \in DOMAIN q.pci_ids : PciTag(q.pci_ids[i]) \in pr.hardware_tags
       /\ \A i \in DOMAIN q.usb_ids : UsbTag(q.usb_ids[i]) \in pr.hardware_tags
       /\ \E i \in DOMAIN q.pci_ids : PciTag(q.pci_ids[i]) \in Range(param.selectors)

check_applicability_condition(param, q, pr) ==
    q.applicable = None \/ is_applicable(param, pr) = Unwrap(q.applicable)

check_distribution_condition(param, q) ==
    \/ q.distribution = None
    \/ LET d == Unwrap(q.distribution) IN
       /\ d.id \in DOMAIN param.distributions
       /\ LET w == param.distributions[d.id] IN
          d.version = None
          \/ /\ w.min_version = None \/ Unwrap(w.min_version) <= Unwrap(d.version)
             /\ w.max_version = None \/ Unwrap(d.version) <= Unwrap(w.max_version)

check_deprecated_condition(param, q) ==
    q.deprecated = None \/ param.deprecated = Unwrap(q.deprecated)

check_flags_condition(param, q) ==
    q.flags = <<>> \/ Range(q.flags) \subseteq Range(param.selectors)

\* The vector matches_query builds, in its order.
Conditions(param, q, pr) ==
    << check_name_condition(param, q),
       check_processor_condition(param, q),
       check_hardware_condition(param, q, pr),
       check_applicability_condition(param, q, pr),
       check_distribution_condition(param, q),
       check_deprecated_condition(param, q),
       check_flags_condition(param, q) >>

\* Mutant of matches_query: OR mode combines like AND mode.
matches_query_AlwaysAll(param, q, pr) ==
    \A i \in DOMAIN Conditions(param, q, pr) : Conditions(param, q, pr)[i]

\* The conditions whose filter fields a query sets.
Constrained(q) ==
    {c \in 1..7 :
        CASE c = 1 -> q.name # None
          [] c = 2 -> q.processor # None
          [] c = 3 -> q.pci_ids # <<>> \/ q.usb_ids # <<>> \/ q.arch # None
          [] c = 4 -> q.applicable # None
          [] c = 5 -> q.distribution # None
          [] c = 6 -> q.deprecated # None
          [] c = 7 -> q.flags # <<>>}

\* Mutant of matches_query: OR mode looks at the constrained conditions only.
matches_query_OrOverSet(param, q, pr) ==
    LET conditions == Conditions(param, q, pr) IN
    CASE q.query_mode = "And" -> \A i \in DOMAIN conditions : conditions[i]
      [] q.query_mode = "Or" -> \E i \in Constrained(q) : conditions[i]

\* Mutant of matches_query: AND mode combines like OR mode.
matches_query_AlwaysAny(param, q, pr) ==
    \E i \in DOMAIN Conditions(param, q, pr) : Conditions(param, q, pr)[i]

matches_query(param, q, pr) ==
    LET conditions == Conditions(param, q, pr) IN
    CASE q.query_mode = "And" -> \A i \in DOMAIN conditions : conditions[i]
      [] q.query_mode = "Or" -> \E i \in DOMAIN conditions : conditions[i]

\* query_parameters: the matching parameters (each a reference, written as its
\* key) in every order the catalog's map can be iterated in.
query_parameters(cat, q, pr) ==
    LET hits == {n \in DOMAIN cat : matches_query(cat[n], q, pr)} IN
    { SelectSeq(order, LAMBDA n : n \in hits) : order \in IterationOrders(DOMAIN cat) }

QueryInit ==
    /\ catalog \in Catalogs
    /\ probe = TheProbe
    /\ query = DefaultQuery
    /\ queryLast = [op |-> "new"]

QueryIdle ==
    /\ QueryInit
    /\ DOMAIN catalog = {<<"p">>, <<"q">>}

\* QueryParameters::new
NewQuery ==
    /\ query' = DefaultQuery
    /\ queryLast' = [op |-> "new"]
    /\ UNCHANGED <<catalog, probe>>
    /\ UNCHANGED notQuery

\* A struct literal.
WriteQuery ==
    /\ \E q \in Queries : query' = q
    /\ queryLast' = [op |-> "literal"]
    /\ UNCHANGED <<catalog, probe>>
    /\ UNCHANGED notQuery

\* QueryParameters::with_name_pattern
WithNamePattern ==
    /\ \E pattern \in Patterns :
          LET re == RegexNew(pattern) IN
          /\ query' = IF re.ok THEN [query EXCEPT !.name = Some(re.val)] ELSE query
          /\ queryLast' = [op |-> "with_name_pattern", ok |-> re.ok]
    /\ UNCHANGED <<catalog, probe>>
    /\ UNCHANGED notQuery

\* QueryParameters::with_processor
WithProcessor ==
    /\ \E p \in {Kernel, Systemd("219")} : query' = [query EXCEPT !.processor = Some(p)]
    /\ queryLast' = [op |-> "with_processor"]
    /\ UNCHANGED <<catalog, probe>>
    /\ UNCHANGED notQuery

\* QueryParameters::applicable_only
ApplicableOnly ==
    /\ query' = [query EXCEPT !.applicable = Some(TRUE)]
    /\ queryLast' = [op |-> "applicable_only"]
    /\ UNCHANGED <<catalog, probe>>
    /\ UNCHANGED notQuery

\* KCmdline::query_parameters(&query)
QueryParametersCall ==
    /\ \E r \in query_parameters(catalog, query, probe) :
          queryLast' = [op |-> "query_parameters", query |-> query, result |-> r]
    /\ UNCHANGED <<catalog, probe, query>>
    /\ UNCHANGED notQuery

\* KCmdline::find_parameters(pattern)
FindParameters ==
    /\ \E pattern \in Patterns :
          LET re == RegexNew(pattern)
              q == [DefaultQuery EXCEPT !.name = Some(pattern)] IN
          IF re.ok
          THEN \E r \in query_parameters(catalog, q, probe) :
                  queryLast' = [op |-> "find_parameters", query |-> q, result |-> r]
          ELSE queryLast' = [op |-> "find_parameters_panic"]
    /\ UNCHANGED <<catalog, probe, query>>
    /\ UNCHANGED notQuery

\* KCmdline::parameters_for_pci_device(vendor_id, device_id)
ParametersForPciDevice ==
    /\ \E id \in { <<"8086", "1234">>, <<"10de", "0001">> } :
          LET q == [DefaultQuery EXCEPT !.pci_ids = <<id>>] IN
          \E r \in query_parameters(catalog, q, probe) :
              queryLast' = [op |-> "parameters_for_pci_device", query |-> q, result |-> r]
    /\ UNCHANGED <<catalog, probe, query>>
    /\ UNCHANGED notQuery

QueryNext ==
    \/ NewQuery
    \/ WriteQuery
    \/ WithNamePattern
    \/ WithProcessor
    \/ ApplicableOnly
    \/ QueryParametersCall
    \/ FindParameters
    \/ ParametersForPciDevice

----------------------------------------------------------------------------
(* Specifications *)

\* The loader.
Init == LoaderInit /\ RegistryInit /\ ValidateIdle /\ QueryIdle /\ ParseIdle /\ ListIdle

Next == LoaderNext

Spec == Init /\ [][Next]_vars

\* The validator registry.
InitRegistry == LoaderIdle /\ RegistryInit /\ ValidateIdle /\ QueryIdle /\ ParseIdle /\ ListIdle

SpecRegistry == InitRegistry /\ [][RegistryNext]_vars

\* The built-in validators.
InitValidate == LoaderIdle /\ RegistryInit /\ ValidateInit /\ QueryIdle /\ ParseIdle /\ ListIdle

SpecValidate == InitValidate /\ [][ValidateNext]_vars

\* The query matcher.
InitQuery == LoaderIdle /\ RegistryInit /\ ValidateIdle /\ QueryInit /\ ParseIdle /\ ListIdle

SpecQuery == InitQuery /\ [][QueryNext]_vars

\* The command-line parser.
InitParse == LoaderIdle /\ RegistryInit /\ ValidateIdle /\ QueryIdle /\ ParseInit /\ ListIdle

SpecParse == InitParse /\ [][ParseNext]_vars

\* The filesystem source's directory walk.
InitList == LoaderIdle /\ RegistryInit /\ ValidateIdle /\ QueryIdle /\ ParseIdle /\ ListInit

SpecList == InitList /\ [][ListNext]_vars

----------------------------------------------------------------------------
(* Properties of the loader *)

\* The cached database is a build of the sources as they are now.
Fresh == IsSome(cache) /\ builtLen = Len(sources)

Db == Unwrap(cache)

Defines(i, n) ==
    LET d == GetParameterDefinition(sources[i], n) IN d.ok /\ IsSome(d.val)

Definers(n) == {i \in DOMAIN sources : Defines(i, n)}

LastDefiner(n) == CHOOSE i \in Definers(n) : \A j \in Definers(n) : j <= i

LastRaw(n) == Unwrap(GetParameterDefinition(sources[LastDefiner(n)], n).val)

\* C1: after a build, the parameter stored for a name is made, field by field,
\* from the record of the last source that defines the name; a field the record
\* leaves unset gets its default, never an earlier source's value.
C1_WholeRecordOverride ==
    Fresh =>
        \A n \in DOMAIN Db.parameters :
            /\ Definers(n) # {}
            /\ LET raw == LastRaw(n)
                   p == Db.parameters[n] IN
               /\ p.name = raw.name
               /\ p.description = raw.description
               /\ p.processor = parse_processor(raw.processor).val
               /\ p.syntax = raw.syntax
               /\ p.deprecated = (raw.deprecated = Some(TRUE))
               /\ p.selectors = (IF raw.selectors = None THEN <<>> ELSE raw.selectors[1])
               /\ p.distributions =
                      (IF raw.distributions = None THEN EmptyMap ELSE raw.distributions[1])
               /\ p.examples = (IF raw.examples = None THEN [valid |-> <<>>, invalid |-> <<>>]
                                ELSE raw.examples[1])
               /\ p.documentation = raw.documentation

\* A name defined by a full record in an earlier source and by a partial record
\* in a later one, stored with the partial record's defaults.
C1_Witness ==
    /\ Fresh
    /\ \E n \in DOMAIN Db.parameters :
        /\ \E i, j \in Definers(n) :
              i < j /\ j = LastDefiner(n)
              /\ sources[i].def = "full" /\ sources[j].def = "partial"
        /\ Db.parameters[n].deprecated = FALSE
        /\ Db.parameters[n].selectors = <<>>
        /\ Db.parameters[n].distributions = EmptyMap

\* C2: a load with a cached database returns it and calls no source; only
\* reload replaces a cached database; reload always builds, calling every source.
C2_LazyCachedLoad ==
    /\ [][(lastOp' = "load" /\ IsSome(cache))
            => (cache' = cache /\ result' = Ok("database") /\ ~built' /\ srcCalls' = {})]_vars
    /\ [][(IsSome(cache) /\ cache' # cache) => lastOp' = "reload"]_vars
    /\ [][lastOp' = "reload" => (built' /\ srcCalls' = DOMAIN sources')]_vars
    /\ [][(lastOp' = "load" /\ cache = None) => (built' /\ srcCalls' = DOMAIN sources')]_vars

\* A load answered from the cache, with sources configured that were not called.
C2_Witness ==
    /\ lastOp = "load" /\ IsSome(cache) /\ ~built /\ srcCalls = {} /\ Len(sources) > 0
    /\ result = Ok("database")

\* A listed name has a malformed record: a source's definition of it fails to
\* parse, or the record selected for it names an unknown processor.
MalformedRecord(n) ==
    \/ \E i \in DOMAIN sources : ~GetParameterDefinition(sources[i], n).ok
    \/ Definers(n) # {} /\ ~parse_processor(LastRaw(n).processor).ok

WellFormedRecord(n) ==
    /\ Definers(n) # {}
    /\ ~MalformedRecord(n)
    /\ \A i \in DOMAIN sources : GetParameterVersions(sources[i], n).ok

\* C3 as claimed: a build over sources with a malformed record succeeds, and its
\* database holds every well-formed parameter and leaves the malformed ones out.
C3_FailureContained ==
    (built /\ \E n \in AllParamNames(sources) : MalformedRecord(n))
        => /\ result.ok
           /\ IsSome(cache)
           /\ \A n \in AllParamNames(sources) :
                 /\ WellFormedRecord(n) => n \in DOMAIN Db.parameters
                 /\ MalformedRecord(n) => n \notin DOMAIN Db.parameters

\* C3 amended: a build over sources with a malformed record fails as a whole
\* with a format error, and no database is cached.
C3_BuildAborts ==
    (built /\ \E n \in AllParamNames(sources) : MalformedRecord(n))
        => /\ ~result.ok
           /\ result.kind = "FormatError"
           /\ cache = None

\* A failed build although another listed parameter is well-formed.
C3_Witness ==
    /\ built
    /\ ~result.ok
    /\ cache = None
    /\ \E n, m \in AllParamNames(sources) :
          n # m /\ MalformedRecord(n) /\ WellFormedRecord(m)

HasSlash(n) == \E k \in DOMAIN n : n[k] = "/"

BeforeLastSlash(n) ==
    LET k == CHOOSE k \in DOMAIN n : n[k] = "/" /\ \A j \in DOMAIN n : j > k => n[j] # "/" IN
    SubSeq(n, 1, k - 1)

ParentCandidates == UNION { {SubSeq(n, 1, k) : k \in 0..Len(n)} : n \in Names }

\* C4: a stored name with a "/" is among get_subparameters(par) exactly for
\* par = its part before the rightmost "/"; a name without "/" for no par.
C4_ParentByRightmostSlash ==
    Fresh =>
        \A n \in DOMAIN Db.parameters : \A par \in ParentCandidates :
            (\E i \in DOMAIN get_subparameters(Db, par) : get_subparameters(Db, par)[i] = n)
                <=> (HasSlash(n) /\ par = BeforeLastSlash(n))

\* A stored name with two "/" listed under its immediate parent.
C4_Witness ==
    /\ Fresh
    /\ <<"p", "/", "r", "/", "s">> \in DOMAIN Db.parameters
    /\ get_subparameters(Db, <<"p", "/", "r">>) = << <<"p", "/", "r", "/", "s">> >>
    /\ get_subparameters(Db, <<"p">>) = << <<"p", "/", "r">> >>

\* C5 as claimed: no two stored parameters carry the same name field.
C5_NameFieldsUnique ==
    Fresh =>
        \A k1, k2 \in DOMAIN Db.parameters :
            k1 # k2 => Db.parameters[k1].name # Db.parameters[k2].name

\* C6 as claimed: a reload over unchanged sources yields the database again,
\* parameters and both indices.
C6_RebuildIdentical ==
    [][(Fresh /\ lastOp' = "reload" /\ result'.ok) => cache' = cache]_vars

----------------------------------------------------------------------------
(* Properties of the validator registry *)

\* C7 as claimed: registering a name an earlier register_validator call
\* registered fails with NameError and changes nothing; registering any other
\* name, a built-in's included, returns Ok and installs the validator.
C7_CollisionRejected ==
    [][regLast'.op = "register" =>
          IF regLast'.name \in registered
          THEN /\ regLast'.result = Err("NameError", regLast'.name)
               /\ processor_validators' = processor_validators
               /\ common_validators' = common_validators
          ELSE /\ regLast'.result.ok
               /\ processor_validators'[regLast'.name] = regLast'.validator]_vars

\* C8: get_validator returns the processor-specific entry when the name has
\* one, otherwise the common entry, otherwise None.
C8_LookupOrder ==
    regLast.op = "get" =>
        LET name == regLast.name IN
        /\ name \in DOMAIN processor_validators
              => regLast.result = Some(processor_validators[name])
        /\ (name \notin DOMAIN processor_validators /\ name \in DOMAIN common_validators)
              => regLast.result = Some(common_validators[name])
        /\ (name \notin DOMAIN processor_validators /\ name \notin DOMAIN common_validators)
              => regLast.result = None

\* A lookup of a name present in both tables with different validators,
\* answered from the processor-specific table.
C8_Witness ==
    /\ regLast.op = "get"
    /\ regLast.name \in DOMAIN processor_validators \cap DOMAIN common_validators
    /\ processor_validators[regLast.name] # common_validators[regLast.name]
    /\ regLast.result = Some(processor_validators[regLast.name])

\* The seventeen syntax types of the specification.
BuiltInTypes ==
    {"boolean", "integer", "size", "enum", "hex", "key_value", "cpu_list", "memory_range",
     "io_range", "pci_device", "usb_device", "dmi", "systemd_unit", "dracut_lvm_lv",
     "dracut_luks_name", "dracut_break", "dracut_ip"}

\* C17 as claimed: a registry no one has registered anything in returns a
\* validator for each of the seventeen built-in syntax types, for every
\* processor.
C17_BuiltInsRegistered ==
    (regLast.op = "get" /\ registered = {} /\ regLast.name \in BuiltInTypes)
        => IsSome(regLast.result)

----------------------------------------------------------------------------
(* Properties of the built-in validators *)

\* C9 as claimed: every validate call returns one of Valid, Warning, Error,
\* Unknown, whatever the value and the configuration.
C9_ValidatorsTotal ==
    validation.op = "validate" =>
        validation.result[1] \in {"Valid", "Warning", "Error", "Unknown"}

Validated(v) == validation.op = "validate" /\ validation.validator = v

\* The claim's reading of a CPU list: the part after the flags prefix, its
\* items as written between the commas, and the flags of the prefix.
ClaimedCpuPart(value, config) ==
    LET colon == IndexOf(value, ":", 1) IN
    IF ConfigBool(config, "supports_flags") /\ colon # 0
    THEN SubSeq(value, colon + 1, Len(value)) ELSE value

ClaimedFlags(value, config) ==
    LET colon == IndexOf(value, ":", 1) IN
    IF ConfigBool(config, "supports_flags") /\ colon # 0
    THEN Range(Split(SubSeq(value, 1, colon - 1), ",")) ELSE {}

ClaimedItemOk(item, config) ==
    LET captures == CpuItemCaptures(item) IN
    /\ IsSome(captures)
    /\ Unwrap(captures).exclusion => ConfigBool(config, "supports_exclusion")
    /\ Unwrap(captures).hasEnd => ~DecLeq(Unwrap(captures).end, Unwrap(captures).start)

\* C18 as claimed: CpuListValidator returns Valid exactly when every flag of
\* a flags prefix is in the configured flag set and every item of the CPU part
\* matches the pattern, uses ^ only where exclusion is supported, and has
\* end > start if it is a range; otherwise it returns Error.
C18_CpuListExact ==
    Validated("CpuListValidator") =>
        LET value == validation.value
            config == validation.config
            items == Split(ClaimedCpuPart(value, config), ",") IN
        validation.result[1] =
            IF /\ ClaimedFlags(value, config) \subseteq Range(ConfigStrings(config, "valid_flags"))
               /\ \A i \in DOMAIN items : ClaimedItemOk(items[i], config)
            THEN "Valid" ELSE "Error"

\* The claim's PCI id: "pci:" and two or four fields of exactly four
\* hexadecimal digits.
ClaimedPciId(value) ==
    /\ Len(value) >= 4
    /\ SubSeq(value, 1, 4) = PciPrefix
    /\ LET fields == Split(SubSeq(value, 5, Len(value)), ":") IN
       /\ Len(fields) \in {2, 4}
       /\ \A i \in DOMAIN fields : Len(fields[i]) = 4 /\ AllHex(fields[i])

\* C19 as claimed: PciDeviceSpecValidator returns Valid exactly for a PCI id
\* of two or four four-hex-digit fields and for an address
\* [domain:]bus:dev.func with func in 0..7, and Error for every other string.
C19_PciExact ==
    Validated("PciDeviceSpecValidator") =>
        validation.result[1] =
            IF ClaimedPciId(validation.value) \/ PciAddressMatches(validation.value)
            THEN "Valid" ELSE "Error"

\* C20: IntegerValidator returns Error for a value that does not parse as a
\* signed 64-bit integer; with integer min and max both configured it returns
\* Valid exactly for min <= n <= max; with either missing every parseable
\* value is Valid.
C20_IntegerRange ==
    Validated("IntegerValidator") =>
        LET n == ParseI64(validation.value)
            min == ConfigInteger(validation.config, "min")
            max == ConfigInteger(validation.config, "max") IN
        /\ validation.result[1] =
              IF n = None THEN "Error"
              ELSE IF IsSome(min) /\ IsSome(max)
                   THEN IF SignedLeq(Unwrap(min), Unwrap(n)) /\ SignedLeq(Unwrap(n), Unwrap(max))
                        THEN "Valid" ELSE "Error"
              ELSE "Valid"
        /\ validation.value \in {I64MinDigits, <<"x">>, <<>>, <<"-">>, <<"1", " ">>}
              => validation.result[1] = "Error"
        /\ (validation.value \in {I64MaxDigits, <<"-">> \o I64MinDigits, <<"+", "5">>}
              /\ validation.config = EmptyMap) => validation.result = Valid

\* The value 10 accepted at the upper end of the configured range 0..10.
C20_Witness ==
    /\ Validated("IntegerValidator")
    /\ validation.value = <<"1", "0">>
    /\ ConfigInteger(validation.config, "min") = Some(Int64(FALSE, <<"0">>))
    /\ ConfigInteger(validation.config, "max") = Some(Int64(FALSE, <<"1", "0">>))
    /\ validation.result = Valid

----------------------------------------------------------------------------
(* Properties of the query matcher *)

Ran == queryLast.op \in {"query_parameters", "find_parameters", "parameters_for_pci_device"}

ConditionsTrue(param, q) ==
    { c \in {"name", "processor", "hardware", "applicability", "distribution",
             "deprecated", "flags"} :
        CASE c = "name" -> check_name_condition(param, q)
          [] c = "processor" -> check_processor_condition(param, q)
          [] c = "hardware" -> check_hardware_condition(param, q, probe)
          [] c = "applicability" -> check_applicability_condition(param, q, probe)
          [] c = "distribution" -> check_distribution_condition(param, q)
          [] c = "deprecated" -> check_deprecated_condition(param, q)
          [] c = "flags" -> check_flags_condition(param, q) }

\* C10: a query returns, once each, exactly the catalog parameters for which
\* all seven conditions are true (AND mode) or at least one is (OR mode); the
\* vector of conditions is in the fixed order; a new QueryParameters is in AND mode.
C10_QueryCombination ==
    /\ Ran =>
          LET q == queryLast.query
              r == queryLast.result IN
          /\ \A i, j \in DOMAIN r : i # j => r[i] # r[j]
          /\ \A n \in DOMAIN catalog :
                (n \in Range(r)) <=>
                    IF q.query_mode = "And" THEN Cardinality(ConditionsTrue(catalog[n], q)) = 7
                    ELSE Cardinality(ConditionsTrue(catalog[n], q)) >= 1
          /\ Range(r) \subseteq DOMAIN catalog
          /\ \A n \in DOMAIN catalog :
                LET c == Conditions(catalog[n], q, probe) IN
                /\ Len(c) = 7
                /\ c[1] = check_name_condition(catalog[n], q)
                /\ c[2] = check_processor_condition(catalog[n], q)
                /\ c[3] = check_hardware_condition(catalog[n], q, probe)
                /\ c[4] = check_applicability_condition(catalog[n], q, probe)
                /\ c[5] = check_distribution_condition(catalog[n], q)
                /\ c[6] = check_deprecated_condition(catalog[n], q)
                /\ c[7] = check_flags_condition(catalog[n], q)
    /\ queryLast.op = "new" => query.query_mode = "And"

\* An OR-mode query that returned a parameter failing some of the conditions
\* and left out a parameter failing all of them.
C10_Witness ==
    /\ queryLast.op = "query_parameters"
    /\ queryLast.query.query_mode = "Or"
    /\ \E n \in Range(queryLast.result) :
          Cardinality(ConditionsTrue(catalog[n], queryLast.query)) \in 1..6
    /\ \E n \in DOMAIN catalog \ Range(queryLast.result) :
          ConditionsTrue(catalog[n], queryLast.query) = {}

\* C11: a query with every filter field unset returns every parameter of the
\* catalog, in AND mode and in OR mode, each condition being true when unset.
C11_UnconstrainedReturnsAll ==
    (Ran /\ Constrained(queryLast.query) = {}) =>
        /\ Range(queryLast.result) = DOMAIN catalog
        /\ \A n \in DOMAIN catalog :
              \A i \in 1..7 : Conditions(catalog[n], queryLast.query, probe)[i]

\* An OR-mode query with nothing set that returned the three parameters.
C11_Witness ==
    /\ queryLast.op = "query_parameters"
    /\ queryLast.query.query_mode = "Or"
    /\ Constrained(queryLast.query) = {}
    /\ Cardinality(Range(queryLast.result)) = 3

Hits(q) == {n \in DOMAIN catalog : matches_query(catalog[n], q, probe)}

\* C12 as claimed: with exactly one filter field constrained, AND mode and OR
\* mode return the same set of parameters.
C12_OneFieldModesAgree ==
    (Ran /\ Cardinality(Constrained(queryLast.query)) = 1) =>
        /\ Range(queryLast.result) = Hits([queryLast.query EXCEPT !.query_mode = "And"])
        /\ Range(queryLast.result) = Hits([queryLast.query EXCEPT !.query_mode = "Or"])

\* C12 as the program has it: with exactly one condition constrained, AND mode
\* returns the parameters that satisfy that condition, and OR mode returns the
\* whole catalog, as it does whenever some condition is left unset.
C12_OrPassesOnUnsetField ==
    Ran =>
        LET q == queryLast.query IN
        /\ (q.query_mode = "Or" /\ Constrained(q) # 1..7)
              => Range(queryLast.result) = DOMAIN catalog
        /\ (q.query_mode = "And" /\ Cardinality(Constrained(q)) = 1)
              => Range(queryLast.result) =
                    {n \in DOMAIN catalog :
                        \A i \in Constrained(q) : Conditions(catalog[n], q, probe)[i]}

\* An OR-mode query with one field constrained that returned a parameter the
\* same query in AND mode leaves out.
C12_Witness ==
    /\ queryLast.op = "query_parameters"
    /\ queryLast.query.query_mode = "Or"
    /\ Cardinality(Constrained(queryLast.query)) = 1
    /\ Range(queryLast.result) = DOMAIN catalog
    /\ Hits([queryLast.query EXCEPT !.query_mode = "And"]) # DOMAIN catalog

----------------------------------------------------------------------------
(* Properties of the command-line parser *)

Parsed == parsing.op = "parse"

ParsedTokens == SplitWhitespace(parsing.cmdline)

Summary == parsing.result.val

\* C13 as claimed: on any command line parse produces one outcome per token,
\* in token order, and the four counts add up to the number of tokens.
C13_OneOutcomePerToken ==
    Parsed =>
        /\ parsing.result.ok
        /\ Len(Summary.details) = Len(ParsedTokens)
        /\ \A i \in DOMAIN ParsedTokens : Summary.details[i][1] = TokenName(ParsedTokens[i])
        /\ Summary.valid_count + Summary.warning_count + Summary.error_count
              + Summary.unknown_count = Len(ParsedTokens)

\* C14 as claimed: the example command line against the example catalog and
\* a fresh registry gives valid 3, warning 0, error 0, unknown 1, nosuchparam
\* being the Unknown one.
C14_BootLineSummary ==
    (Parsed /\ parsing.cmdline = BootLine /\ parsing.catalog = BootCatalog) =>
        /\ parsing.result.ok
        /\ Summary.valid_count = 3
        /\ Summary.warning_count = 0
        /\ Summary.error_count = 0
        /\ Summary.unknown_count = 1
        /\ Summary.details[4][2][1] = "Unknown"

HasValidator(type) == type \in DOMAIN processor_validators \cup DOMAIN common_validators

----------------------------------------------------------------------------
(* Properties of the filesystem source *)

Listed == listing.op = "list_parameters"

\* C16 as claimed: list_parameters returns exactly the '/'-joined paths of the
\* directories below <root>/parameters that contain a definition file, at any
\* depth, and an empty list when <root>/parameters is missing.
C16_ListsDefinitionDirectories ==
    (Listed /\ listing.tree.parameters # "file") =>
        /\ listing.result.ok
        /\ Range(listing.result.val) = {JoinPath(d) : d \in listing.tree.defs}
        /\ listing.tree.parameters = "missing" => listing.result.val = <<>>

----------------------------------------------------------------------------
(* DmiSpecValidator: the order of the field and value checks *)

\* The value has the form dmi:<field>:<value>.
DmiForm(value) ==
    StartsWith(value, DmiPrefix) /\ IsSome(SplitOnce(SubSeq(value, 5, Len(value)), ":"))

DmiField(value) == Unwrap(SplitOnce(SubSeq(value, 5, Len(value)), ":"))[1]
DmiValue(value) == Unwrap(SplitOnce(SubSeq(value, 5, Len(value)), ":"))[2]

\* C21 as claimed: for a value dmi:<field>:<value>, DmiSpecValidator returns
\* Error whenever <value> is empty, whatever the field; Warning when the field
\* is unknown and the value non-empty; Valid when the field is known and the
\* value non-empty.
C21_DmiEmptyValueIsError ==
    (Validated("DmiSpecValidator") /\ DmiForm(validation.value)) =>
        validation.result[1] =
            IF DmiValue(validation.value) = <<>> THEN "Error"
            ELSE IF DmiField(validation.value) \notin DmiValidFields THEN "Warning"
            ELSE "Valid"

----------------------------------------------------------------------------
(* SystemdUnitValidator: the order of the suffix and separator checks *)

HasPathSeparator(value) == Contains(value, "/") \/ Contains(value, "\\")

\* C22 as claimed: SystemdUnitValidator returns Error for the empty string and
\* for every value that contains '/' or '\', whatever its suffix; Warning for
\* a non-empty value without path separators that ends in no recognized
\* suffix; Valid otherwise.
C22_UnitSeparatorIsError ==
    Validated("SystemdUnitValidator") =>
        validation.result[1] =
            IF validation.value = <<>> \/ HasPathSeparator(validation.value) THEN "Error"
            ELSE IF ~\E suffix \in UnitSuffixes : EndsWith(validation.value, suffix) THEN "Warning"
            ELSE "Valid"

----------------------------------------------------------------------------
(* DracutLuksNameValidator: the order of the uuid and name checks *)

LuksUuid(value) == Unwrap(SplitOnce(value, "="))[1]
LuksName(value) == Unwrap(SplitOnce(value, "="))[2]

\* C23 as claimed: for a value uuid=name split at the first '=',
\* DracutLuksNameValidator returns Error whenever name is empty or contains
\* '/', whatever the uuid part; Warning when the name is acceptable but the
\* uuid part has no canonical UUID shape; Error when the value has no '=';
\* Valid otherwise.
C23_LuksBadNameIsError ==
    Validated("DracutLuksNameValidator") =>
        validation.result[1] =
            IF ~Contains(validation.value, "=") THEN "Error"
            ELSE IF LuksName(validation.value) = <<>> \/ Contains(LuksName(validation.value), "/")
                 THEN "Error"
            ELSE IF ~UuidMatches(LuksUuid(validation.value)) THEN "Warning"
            ELSE "Valid"

----------------------------------------------------------------------------
(* DatabaseLoader: sources added after a load *)

\* C24: with_embedded and with_filesystem leave the cached database as it is;
\* a load over a cached database returns it without building, whatever sources
\* were added since; the cached database is always a build of the source list
\* as it was when the cache was filled, which only a reload replaces.
C24_AddedSourceNotLoaded ==
    /\ [][lastOp' \in {"with_embedded", "with_filesystem"}
            => (cache' = cache /\ builtLen' = builtLen)]_vars
    /\ [][(lastOp' = "load" /\ IsSome(cache) /\ builtLen < Len(sources))
            => (cache' = cache /\ result' = Ok("database") /\ builtLen' = builtLen)]_vars
    /\ [][(IsSome(cache) /\ builtLen' # builtLen) => lastOp' = "reload"]_vars
    /\ [](IsSome(cache) => Ok(Db) \in build_database(SubSeq(sources, 1, builtLen)))

\* A load answered from the cache after a source was added that defines a
\* name the cached database does not hold.
C24_Witness ==
    /\ lastOp = "load" /\ IsSome(cache) /\ result = Ok("database")
    /\ builtLen < Len(sources)
    /\ \E n \in Names : Defines(Len(sources), n) /\ n \notin DOMAIN Db.parameters

----------------------------------------------------------------------------
(* DatabaseLoader: a build that fails *)

\* C25: a reload or a load whose build fails returns the error and leaves no
\* cached database, also when one was cached before the reload; a load with no
\* cached database builds over every source; and a load or reload that returns
\* a database returns the cached one, which a successful build produced.
C25_FailedBuildLeavesNoCache ==
    /\ [][(lastOp' \in {"load", "reload"} /\ ~result'.ok)
            => (built' /\ cache' = None /\ result' \in build_database(sources'))]_vars
    /\ [][(lastOp' = "load" /\ cache = None)
            => (built' /\ srcCalls' = DOMAIN sources' /\ result' \in
                   {IF r.ok THEN Ok("database") ELSE r : r \in build_database(sources')})]_vars
    /\ []((lastOp \in {"load", "reload"} /\ result.ok)
            => (IsSome(cache) /\ Ok(Db) \in build_database(SubSeq(sources, 1, builtLen))))

\* A reload that fails after a database had been built and cached.
C25_Witness ==
    /\ lastOp = "reload" /\ ~result.ok /\ cache = None
    /\ builtLen > 0 /\ builtLen < Len(sources)

----------------------------------------------------------------------------
(* LoadedDatabase: the two indices *)

\* No element occurs twice in the list.
Distinct(l) == \A i, j \in DOMAIN l : l[i] = l[j] => i = j

\* The processor values a stored parameter can carry, and one with another payload.
IndexProcessorKeys ==
    {Kernel, Systemd("219"), Systemd("250"), Dracut("011"), InitramfsTools, Plymouth, Grub}

\* C26: in every built database each name listed in the parent-to-children
\* index or the processor-to-names index is a key of the parameter map and is
\* listed once in its list; each parameter is in exactly one processor list,
\* that of its own processor value; get_subparameters and
\* parameters_by_processor return their list entire and without duplicates.
C26_IndicesConsistent ==
    IsSome(cache) =>
        /\ \A par \in DOMAIN Db.subparameter_index :
              LET l == Db.subparameter_index[par] IN
              /\ \A i \in DOMAIN l : l[i] \in DOMAIN Db.parameters
              /\ Distinct(l)
              /\ get_subparameters(Db, par) = l
        /\ \A pr \in DOMAIN Db.processor_index :
              LET l == Db.processor_index[pr] IN
              /\ \A i \in DOMAIN l : l[i] \in DOMAIN Db.parameters
              /\ Distinct(l)
        /\ \A n \in DOMAIN Db.parameters :
              { pr \in DOMAIN Db.processor_index :
                  \E i \in DOMAIN Db.processor_index[pr] : Db.processor_index[pr][i] = n }
                  = {Db.parameters[n].processor}
        /\ \A pr \in IndexProcessorKeys :
              LET l == parameters_by_processor(Db, pr) IN
              /\ Distinct(l)
              /\ {l[i] : i \in DOMAIN l} = {n \in DOMAIN Db.parameters : Db.parameters[n].processor = pr}

\* A built database with parameters of two processors, one processor list of
\* two names, and a parent with a child.
C26_Witness ==
    /\ IsSome(cache)
    /\ Cardinality(DOMAIN Db.processor_index) = 2
    /\ \E pr \in DOMAIN Db.processor_index : Len(Db.processor_index[pr]) = 2
    /\ \E par \in DOMAIN Db.subparameter_index : Len(Db.subparameter_index[par]) > 0

----------------------------------------------------------------------------
(* build_database: names that are listed but not defined *)

ListedBySource(n) == \E i \in DOMAIN sources : n \in ListParameters(sources[i])

\* Some source lists the name and every source answers Ok(None) for its definition.
Undefined(n) ==
    /\ ListedBySource(n)
    /\ \A i \in DOMAIN sources : GetParameterDefinition(sources[i], n) = Ok(None)

\* The last operation built over the sources as they are now.
JustBuilt == lastOp \in {"load", "reload"} /\ built

\* The name is in neither the parameter map nor a list of either index.
LeftOut(db, n) ==
    /\ n \notin DOMAIN db.parameters
    /\ \A par \in DOMAIN db.subparameter_index :
          \A i \in DOMAIN db.subparameter_index[par] : db.subparameter_index[par][i] # n
    /\ \A pr \in DOMAIN db.processor_index :
          \A i \in DOMAIN db.processor_index[pr] : db.processor_index[pr][i] # n

\* Every key of the database is listed by a source and defined by a source.
KeysListedAndDefined(db) ==
    \A n \in DOMAIN db.parameters : ListedBySource(n) /\ Definers(n) # {}

----------------------------------------------------------------------------
(* StandardValidatorRegistry: registration and lookup *)

\* What a lookup of the name returns in the given tables, per processor.
Lookups(common, specific, name) ==
    [p \in Processors |-> get_validator(common, specific, p, name)]

\* C28: once register_validator(name, v) has returned Ok, get_validator(p,
\* name) returns v for every processor p, also for the name of a common
\* built-in, which stays in the common table; lookups of every other name
\* return what they returned before the registration.
C28_RegisteredIsReturned ==
    /\ [][(regLast'.op = "register" /\ regLast'.result.ok)
            => /\ \A p \in Processors :
                     Lookups(common_validators', processor_validators', regLast'.name)[p]
                         = Some(regLast'.validator)
               /\ common_validators' = common_validators
               /\ \A n \in ValidatorNames \ {regLast'.name} :
                     Lookups(common_validators', processor_validators', n)
                         = Lookups(common_validators, processor_validators, n)]_vars
    /\ [][(regLast.op = "register" /\ regLast.result.ok
            /\ regLast'.op = "get" /\ regLast'.name = regLast.name)
            => regLast'.result = Some(regLast.validator)]_vars
    /\ [][(regLast.op = "register" /\ regLast.result.ok /\ regLast.name = "boolean"
            /\ regLast'.op = "get" /\ regLast'.name # regLast.name)
            => regLast'.result = get_validator(NewCommon, processor_validators,
                                               regLast'.processor, regLast'.name)]_vars

\* A lookup of boolean that returns a registered validator while the common
\* table still holds the built-in.
C28_Witness ==
    /\ regLast.op = "get" /\ regLast.name = "boolean"
    /\ "boolean" \in registered
    /\ regLast.result \in {Some(v) : v \in CustomValidators}
    /\ common_validators["boolean"] = "BooleanValidator"

\* C29: in every registry state and for every name, lookups that differ only
\* in the processor, the min_version payload included, return the same
\* validator or all return None; a lookup repeated with another processor
\* returns what the lookup before it returned.
C29_ProcessorIgnored ==
    /\ [](\A name \in ValidatorNames : \A p1, p2 \in Processors :
            Lookups(common_validators, processor_validators, name)[p1]
                = Lookups(common_validators, processor_validators, name)[p2])
    /\ [][(regLast.op = "get" /\ regLast'.op = "get" /\ regLast'.name = regLast.name)
            => regLast'.result = regLast.result]_vars

\* A lookup of a processor-specific name for Systemd 250 that returns the
\* validator a lookup for Systemd 219 returns.
C29_Witness ==
    /\ regLast.op = "get" /\ regLast.processor = Systemd("250")
    /\ regLast.name \in DOMAIN processor_validators
    /\ regLast.result # None
    /\ regLast.result = get_validator(common_validators, processor_validators,
                                       Systemd("219"), regLast.name)

=============================================================================
